---- MODULE Spec2Model ----
(***************************************************************************)
(* Verification model of the subtitle timing pipeline (srt-pipeline).      *)
(*                                                                         *)
(* The programs of the repository are modelled, each under its own        *)
(* specification:                                                          *)
(*   SpecExtend / SpecOpt  src/src/alignment/smart_segmentation.py         *)
(*                         (_extend_display_times, optimize_cps)           *)
(*   SpecSmart             src/scripts/smart_subs.py                       *)
(*                         (distribute_text_over_capcut, main)             *)
(*   SpecAnchor            src/scripts/smart_subs.py (cut_tail_at_anchor)  *)
(*                         src/scripts/clean_tail.py (main)                *)
(*   SpecWx                src/scripts/final_whisperx_integrator_v9_...py  *)
(*                         (apply_duration_aware_whisperx_timing)          *)
(*   SpecTail              src/scripts/finalize_tail.py (main)             *)
(*   SpecFmt               fmt_time, format_seconds_to_srt                 *)
(*   SpecRound             src/scripts/smart_subs.py                       *)
(*                         (format_srt, parse_srt)                         *)
(*   SpecParse             parse_srt, load_srt and the runs that read with *)
(*                         them                                            *)
(*   SpecWrap              split_lines, _ensure_linebreaks,                *)
(*                         format_subtitle_lines                           *)
(*   SpecCo                src/src/alignment/conservative_optimizer.py     *)
(*                         (conservative_optimize)                         *)
(*   SpecForce             src/scripts/force_align_whisper.py              *)
(*                         (align_to_script, generate_srt)                 *)
(*                                                                         *)
(* Times are exact integers on a grid that makes every division of the     *)
(* code exact; the grid of each program is stated where it is introduced.  *)
(***************************************************************************)
EXTENDS Integers, Sequences, FiniteSets, TLC

VARIABLES
  \* ---- smart_segmentation.py
  segs,        \* the list being worked on (segs of _extend_display_times)
  seg_in,      \* the list handed to the function under check
  ext_i,       \* loop index i of _extend_display_times (1-based)
  opt_pc,      \* position inside optimize_cps / _extend_display_times
  opt_run,     \* 1: first call of optimize_cps, 2: call on its own output
  opt_out1,    \* what the first call of optimize_cps returned
  \* ---- smart_subs.py
  ss_S,        \* S: the whitespace-collapsed script
  ss_capcut,   \* capcut_cues: the rough cues read from the SRT
  ss_valleys,  \* valleys: the silence valleys, in file order
  ss_out,      \* out of distribute_text_over_capcut, then cues of main
  ss_tptr,     \* tptr: script characters handed out so far
  ss_k,        \* index of the rough cue the distribution loop is at
  ss_pc,       \* position inside distribute_text_over_capcut / main
  \* ---- the anchor cut (smart_subs.py, clean_tail.py)
  an_cues,     \* the cue list handed to the cut
  an_anchor,   \* --final-anchor of clean_tail.py
  an_out,      \* what the cut returned
  an_pc,       \* "start", or which of the two programs has returned
  \* ---- final_whisperx_integrator_v9_duration_fix.py
  wx_segments, \* segments: the cues read from the input SRT
  wx_chars,    \* wx_chars: the character stream of the WhisperX JSON
  wx_stream,   \* norm_wx_text and norm_map, one [c, a, b] per character
  wx_total,    \* total_wx_duration
  wx_res,      \* result_segments (times scaled by WxDen)
  wx_pos,      \* pos_norm: the scan pointer into the normalized stream
  wx_spans,    \* per segment served: pos_norm at the search, s_norm, e_norm
  wx_i,        \* loop index (1-based) of the loop wx_pc names
  wx_pc,       \* position inside apply_duration_aware_whisperx_timing
  \* ---- finalize_tail.py
  ft_cues,     \* cues of main
  ft_audio,    \* a: the audio length ffprobe reports
  ft_offset,   \* --target_offset_ms
  ft_idx,      \* idx: the cue that is adjusted (1-based)
  ft_pc,       \* position inside main
  \* ---- the conversions between cues and subtitle text
  io_in,       \* the value handed to the conversion
  io_out,      \* what the conversion returned
  io_pc        \* which conversion has run

vars_seg == <<segs, seg_in, ext_i, opt_pc, opt_run, opt_out1>>

vars_smart == <<ss_S, ss_capcut, ss_valleys, ss_out, ss_tptr, ss_k, ss_pc>>

vars_anchor == <<an_cues, an_anchor, an_out, an_pc>>

vars_wx ==
  <<wx_segments, wx_chars, wx_stream, wx_total, wx_res, wx_pos, wx_spans, wx_i, wx_pc>>

vars_tail == <<ft_cues, ft_audio, ft_offset, ft_idx, ft_pc>>

vars_io == <<io_in, io_out, io_pc>>

vars_rest == <<vars_tail, vars_io>>

vars_main == <<vars_seg, vars_smart, vars_anchor, vars_wx>>

vars == <<vars_main, vars_rest>>

\* the variables of a program that a specification does not run
IdleTail ==
  /\ ft_cues = <<>> /\ ft_audio = 0 /\ ft_offset = 0 /\ ft_idx = 0 /\ ft_pc = "idle"

IdleIo == io_in = <<>> /\ io_out = <<>> /\ io_pc = "idle"

IdleRest == IdleTail /\ IdleIo

IdleSeg ==
  /\ segs = <<>> /\ seg_in = <<>> /\ ext_i = 0
  /\ opt_pc = "idle" /\ opt_run = 0 /\ opt_out1 = <<>>

IdleSmart ==
  /\ ss_S = <<>> /\ ss_capcut = <<>> /\ ss_valleys = <<>> /\ ss_out = <<>>
  /\ ss_tptr = 0 /\ ss_k = 0 /\ ss_pc = "idle"

IdleAnchor ==
  /\ an_cues = <<>> /\ an_anchor = <<>> /\ an_out = <<>> /\ an_pc = "idle"

IdleWx ==
  /\ wx_segments = <<>> /\ wx_chars = <<>> /\ wx_stream = <<>> /\ wx_res = <<>>
  /\ wx_total = 0
  /\ wx_pos = 0 /\ wx_spans = <<>> /\ wx_i = 0 /\ wx_pc = "idle"

IdleMain == IdleSeg /\ IdleSmart /\ IdleAnchor /\ IdleWx

-----------------------------------------------------------------------------
(* Generic helpers                                                         *)

Min(a, b) == IF a <= b THEN a ELSE b

Max(a, b) == IF a >= b THEN a ELSE b

Range(s) == {s[k] : k \in 1..Len(s)}

\* All sequences over S of length 0..n
SeqsUpTo(S, n) == UNION {[1..k -> S] : k \in 0..n}

\* The elements of a finite set of integers as an increasing sequence
RECURSIVE SortedSeq(_)
SortedSeq(S) ==
  IF S = {} THEN <<>>
  ELSE LET m == CHOOSE x \in S : \A y \in S : x <= y
       IN <<m>> \o SortedSeq(S \ {m})

-----------------------------------------------------------------------------
(* smart_segmentation.py                                                   *)
(*                                                                         *)
(* Time grid: one tick is 1/140 s, so that chars/TARGET_CPS_MAX (20 ticks  *)
(* per character), chars/TARGET_CPS_MIN (35 ticks per character), MIN_GAP  *)
(* (7 ticks), MIN_DURATION and MAX_DURATION are all whole numbers.  On     *)
(* this grid two distinct values differ by far more than the code's 1e-6   *)
(* tolerance, so "x <= y + 1e-6" is x <= y and "need > 1e-6" is need > 0.  *)
(* A Word is [start, end, chars, kind]: chars = len(_norm(text)), kind     *)
(* says whether text.strip() is an end mark, a pause mark or other text.   *)
(* A Segment is [start, end, text, words]: text is the number of visible   *)
(* characters of its text field (0: the field is empty).                   *)

Tick == 4 * 5 * 7

TARGET_CPS_MIN == 4

TARGET_CPS_MAX == 7

MIN_DURATION == (3 * Tick) \div 2

MAX_DURATION == 8 * Tick

MIN_GAP == Tick \div 20

\* float('inf') of the slack computation
Inf == -1

RECURSIVE SumChars(_)
SumChars(ws) == IF ws = <<>> THEN 0 ELSE Head(ws).chars + SumChars(Tail(ws))

\* _chars_len(_segment_text(seg)): the text field, or the joined words when
\* the text field is empty
SegChars(seg) == IF seg.text > 0 THEN seg.text ELSE SumChars(seg.words)

\* _cps(seg) <= halves/2, with dur = max(end - start, 0.000001)
CpsLeqHalves(seg, halves) ==
  LET d == seg.end - seg.start
  IN IF d > 0 THEN 2 * SegChars(seg) * Tick <= halves * d
     ELSE SegChars(seg) = 0

\* _words_to_segment; its text is _ensure_linebreaks(_rebuild_text(ws)), which
\* only inserts line breaks and strips blanks
words_to_segment(ws) ==
  IF ws = <<>> THEN [start |-> 0, end |-> 0, text |-> 0, words |-> <<>>]
  ELSE [start |-> ws[1].start, end |-> ws[Len(ws)].end,
        text |-> SumChars(ws), words |-> ws]

RECURSIVE MergeFrom(_, _)
MergeFrom(segments, i) ==
  IF i > Len(segments) THEN <<>>
  ELSE LET cur == segments[i]
           dur == Max(cur.end - cur.start, 0)
       IN IF dur >= MIN_DURATION \/ i = Len(segments)
          THEN <<words_to_segment(cur.words)>> \o MergeFrom(segments, i + 1)
          ELSE LET merged == words_to_segment(cur.words \o segments[i + 1].words)
               IN IF CpsLeqHalves(merged, 2 * TARGET_CPS_MAX + 1)
                  THEN <<merged>> \o MergeFrom(segments, i + 2)
                  ELSE <<words_to_segment(cur.words)>> \o MergeFrom(segments, i + 1)

merge_short_segments(segments) == MergeFrom(segments, 1)

\* the chunks of words[last+1..] cut after the positions of cuts (increasing)
RECURSIVE Chunks(_, _, _)
Chunks(words, cuts, last) ==
  IF cuts = <<>>
  THEN IF last < Len(words) THEN <<SubSeq(words, last + 1, Len(words))>> ELSE <<>>
  ELSE LET c == Head(cuts)
           chunk == SubSeq(words, last + 1, c)
       IN (IF chunk # <<>> THEN <<chunk>> ELSE <<>>) \o Chunks(words, Tail(cuts), c)

\* what split_long_segments appends for one segment
SplitOne(s) ==
  LET need_split == (s.end - s.start) > MAX_DURATION
                      \/ ~CpsLeqHalves(s, 2 * TARGET_CPS_MAX + 2)
      words == s.words
      punct == {idx \in 1..Len(words) :
                  words[idx].kind \in {"end", "pause"} /\ idx < Len(words)}
      cuts == IF punct = {} THEN <<Len(words) \div 2>> ELSE SortedSeq(punct)
      chunks == Chunks(words, cuts, 0)
  IN IF ~need_split \/ words = <<>>
     THEN <<words_to_segment(words)>>
     ELSE [k \in 1..Len(chunks) |-> words_to_segment(chunks[k])]

RECURSIVE SplitFrom(_, _)
SplitFrom(segments, i) ==
  IF i > Len(segments) THEN <<>>
  ELSE SplitOne(segments[i]) \o SplitFrom(segments, i + 1)

split_long_segments(segments) == SplitFrom(segments, 1)

\* target_dur of _extend_display_times for a cue of `chars` characters
TargetDur(chars, cur_dur) ==
  LET desired_min == Max((chars * Tick) \div TARGET_CPS_MAX, MIN_DURATION)
      desired_max == Min((chars * Tick) \div TARGET_CPS_MIN, MAX_DURATION)
  IN Min(Max(cur_dur, desired_min), desired_max)

slack_before(ss, i) ==
  IF i = 1 THEN Inf ELSE Max(0, (ss[i].start - ss[i - 1].end) - MIN_GAP)

\* mutant of slack_after: the minimum gap is added instead of subtracted
slack_after_GapAdded(ss, i) ==
  IF i = Len(ss) THEN Inf ELSE Max(0, ss[i + 1].start - ss[i].end) + MIN_GAP

slack_after(ss, i) ==
  IF i = Len(ss) THEN Inf ELSE Max(0, (ss[i + 1].start - ss[i].end) - MIN_GAP)

\* min(need, slack) with slack possibly float('inf')
MinSlack(need, slack) == IF slack = Inf THEN need ELSE Min(need, slack)

\* mutant of ExtendOne: the start is moved first, the end for the remainder
ExtendOne_BeforeFirst(ss, i) ==
  LET s == ss[i]
      chars == SegChars(s)
      cur_dur == Max(s.end - s.start, 0)
      target_dur == TargetDur(chars, cur_dur)
      need == target_dur - cur_dur
      extend_before == MinSlack(need, slack_before(ss, i))
      need2 == need - extend_before
      sa == slack_after(ss, i)
      extend_after == IF need2 > 0 /\ (sa = Inf \/ sa > 0)
                      THEN MinSlack(need2, sa) ELSE 0
  IN IF chars = 0 \/ target_dur <= cur_dur THEN ss
     ELSE [ss EXCEPT ![i] = [s EXCEPT !.end = s.end + extend_after,
                                      !.start = s.start - extend_before]]

\* one iteration of the loop of _extend_display_times, on cue i of ss
ExtendOne(ss, i) ==
  LET s == ss[i]
      chars == SegChars(s)
      cur_dur == Max(s.end - s.start, 0)
      target_dur == TargetDur(chars, cur_dur)
      need == target_dur - cur_dur
      extend_after == MinSlack(need, slack_after(ss, i))
      need2 == need - extend_after
      sb == slack_before(ss, i)
      extend_before == IF need2 > 0 /\ (sb = Inf \/ sb > 0)
                       THEN MinSlack(need2, sb) ELSE 0
  IN IF chars = 0 \/ target_dur <= cur_dur THEN ss
     ELSE [ss EXCEPT ![i] = [s EXCEPT !.end = s.end + extend_after,
                                      !.start = s.start - extend_before]]

\* the text normalisation that ends optimize_cps: text is rebuilt from the words
CleanText(ss) ==
  [k \in 1..Len(ss) |-> [ss[k] EXCEPT !.text = SumChars(ss[k].words)]]

-----------------------------------------------------------------------------
(* Inputs of the smart_segmentation specifications                         *)

MaxSegs == 3

MaxWords == 3

\* Shapes of the input cues, [gap, dur, chars]:
\*   gap to the previous cue: touching (no slack), 0.25 s (slack 0.2 s),
\*     0.35 s (slack 0.3 s);
\*   dur = end - start: 1.0 s, 1.3 s, and -0.5 s (an inverted cue);
\*   chars: 8 (target 1.5 s), 14 (target 2 s), 0 (no visible character).
ExtShapes ==
  [gap : {0, 35, 49}, dur : {140, 182}, chars : {8, 14}]
    \cup {[gap |-> 0, dur |-> 140, chars |-> 0], [gap |-> 49, dur |-> 182, chars |-> 0],
          [gap |-> 0, dur |-> -70, chars |-> 8], [gap |-> 49, dur |-> -70, chars |-> 14]}

\* The cue list of a list of shapes: each cue starts `gap` after the latest
\* of the previous cue's start and end, so the list is ordered by start and
\* cue[i].end <= cue[i+1].start
RECURSIVE CuesOf(_, _)
CuesOf(shapes, t) ==
  IF shapes = <<>> THEN <<>>
  ELSE LET h == Head(shapes)
           st == t + h.gap
       IN <<[start |-> st, end |-> st + h.dur, text |-> h.chars, words |-> <<>>]>>
            \o CuesOf(Tail(shapes), Max(st, st + h.dur))

ExtInputs == {CuesOf(sh, 0) : sh \in SeqsUpTo(ExtShapes, MaxSegs)}

\* Word shapes of optimize_cps inputs: [gap, dur, chars, kind]
OptWordShapes ==
  [gap : {0, Tick \div 10}, dur : {Tick, 7 * Tick}, chars : {1}, kind : {"pause"}]
    \cup [gap : {0, Tick \div 10}, dur : {Tick, 7 * Tick}, chars : {10, 14}, kind : {"text"}]

RECURSIVE WordsOf(_, _)
WordsOf(shapes, t) ==
  IF shapes = <<>> THEN <<>>
  ELSE LET h == Head(shapes)
           st == t + h.gap
       IN <<[start |-> st, end |-> st + h.dur, chars |-> h.chars, kind |-> h.kind]>>
            \o WordsOf(Tail(shapes), st + h.dur)

\* the segments that group the words ws, a new segment starting at each
\* position of `starts` (position 1 always starts one)
GroupWords(ws, starts) ==
  LET bs == SortedSeq(starts \cup {1})
  IN [k \in 1..Len(bs) |->
        words_to_segment(SubSeq(ws, bs[k],
                                IF k < Len(bs) THEN bs[k + 1] - 1 ELSE Len(ws)))]

\* the segment lists of at most n words
OptInputs(n) ==
  UNION {{GroupWords(WordsOf(sh, 0), st) : st \in SUBSET (2..Len(sh))} :
           sh \in SeqsUpTo(OptWordShapes, n) \ {<<>>}}

-----------------------------------------------------------------------------
(* Actions of smart_segmentation.py                                        *)

\* a direct call of _extend_display_times(segments)
InitExtend ==
  /\ seg_in \in ExtInputs
  /\ segs = seg_in
  /\ ext_i = 1
  /\ opt_pc = "extend"
  /\ opt_run = 0
  /\ opt_out1 = <<>>
  /\ IdleSmart /\ IdleAnchor /\ IdleWx /\ IdleRest

\* a call of optimize_cps(segments), later repeated on its own output
InitOpt ==
  /\ seg_in \in OptInputs(MaxWords)
  /\ segs = seg_in
  /\ ext_i = 1
  /\ opt_pc = "merge"
  /\ opt_run = 1
  /\ opt_out1 = <<>>
  /\ IdleSmart /\ IdleAnchor /\ IdleWx /\ IdleRest

Merge ==
  /\ opt_pc = "merge"
  /\ segs' = merge_short_segments(segs)
  /\ opt_pc' = "split"
  /\ UNCHANGED <<seg_in, ext_i, opt_run, opt_out1, vars_smart, vars_anchor, vars_wx, vars_rest>>

Split ==
  /\ opt_pc = "split"
  /\ segs' = split_long_segments(segs)
  /\ opt_pc' = "extend"
  /\ ext_i' = 1
  /\ UNCHANGED <<seg_in, opt_run, opt_out1, vars_smart, vars_anchor, vars_wx, vars_rest>>

ExtendStep ==
  /\ opt_pc = "extend"
  /\ ext_i <= Len(segs)
  /\ segs' = ExtendOne(segs, ext_i)
  /\ ext_i' = ext_i + 1
  /\ UNCHANGED <<seg_in, opt_pc, opt_run, opt_out1, vars_smart, vars_anchor, vars_wx, vars_rest>>

\* _extend_display_times returns to a direct caller
ExtendReturn ==
  /\ opt_pc = "extend"
  /\ ext_i > Len(segs)
  /\ opt_run = 0
  /\ opt_pc' = "done"
  /\ UNCHANGED <<segs, seg_in, ext_i, opt_run, opt_out1, vars_smart, vars_anchor, vars_wx, vars_rest>>

\* optimize_cps normalises the texts and returns
Clean ==
  /\ opt_pc = "extend"
  /\ ext_i > Len(segs)
  /\ opt_run \in {1, 2}
  /\ segs' = CleanText(segs)
  /\ opt_pc' = IF opt_run = 1 THEN "returned" ELSE "done"
  /\ UNCHANGED <<seg_in, ext_i, opt_run, opt_out1, vars_smart, vars_anchor, vars_wx, vars_rest>>

\* optimize_cps is called again on what it returned
Rerun ==
  /\ opt_pc = "returned"
  /\ opt_out1' = segs
  /\ opt_run' = 2
  /\ opt_pc' = "merge"
  /\ UNCHANGED <<segs, seg_in, ext_i, vars_smart, vars_anchor, vars_wx, vars_rest>>

-----------------------------------------------------------------------------
(* Claims about smart_segmentation.py                                      *)

Dur(c) == c.end - c.start

\* ordered by start, and every cue ends no later than the next one starts
OrderedCues(cs) ==
  \A k \in 1..Len(cs) - 1 : cs[k].start <= cs[k + 1].start

NonOverlapping(cs) ==
  \A k \in 1..Len(cs) - 1 : cs[k].end <= cs[k + 1].start

\* C1: when _extend_display_times has run on a cue list that is ordered by
\* start and in which every cue ends no later than the next one starts,
\* every cue of the returned list still ends no later than the next starts.
C1_ExtendKeepsOrder ==
  (opt_pc = "done" /\ opt_run = 0 /\ OrderedCues(seg_in) /\ NonOverlapping(seg_in))
    => NonOverlapping(segs)

\* C1 witness: the pass has returned a list in which two neighbours were
\* both stretched towards each other.
C1_Witness ==
  /\ opt_pc = "done" /\ opt_run = 0
  /\ OrderedCues(seg_in) /\ NonOverlapping(seg_in)
  /\ \E k \in 1..Len(segs) - 1 :
        /\ segs[k].end > seg_in[k].end
        /\ segs[k + 1].start < seg_in[k + 1].start

\* C4: after _extend_display_times every cue with a visible character has
\* visibleChars/(end - start) <= TARGET_CPS_MAX or carries a residual-
\* violation flag.  (A Segment has the fields start, end, text and words;
\* a flag would be one more field.)
C4_CpsCeilingOrFlag ==
  (opt_pc = "done" /\ opt_run = 0 /\ OrderedCues(seg_in) /\ NonOverlapping(seg_in)
     /\ \A k \in 1..Len(seg_in) : seg_in[k].start < seg_in[k].end) =>
    \A k \in 1..Len(segs) :
      SegChars(segs[k]) > 0 =>
        \/ (Dur(segs[k]) > 0
              /\ SegChars(segs[k]) * Tick <= TARGET_CPS_MAX * Dur(segs[k]))
        \/ "flag" \in DOMAIN segs[k]

\* C5: a step of _extend_display_times on a cue whose target duration T
\* exceeds its duration d leaves it with duration min(T, d + slack_after +
\* slack_before), slack_after = max(0, next.start - end - MIN_GAP) and
\* slack_before = max(0, start - previous.end - MIN_GAP) (unbounded at the
\* ends of the list); the end moves first, by min(T - d, slack_after), and
\* the start only for the remainder.  No other cue moves.
C5_ExactExtension ==
  [][(opt_pc = "extend" /\ ext_i <= Len(segs) /\ ext_i' = ext_i + 1) =>
      LET i == ext_i
          s == segs[i]
          d == Dur(s)
          T == TargetDur(SegChars(s), d)
          noNext == i = Len(segs)
          noPrev == i = 1
          sa == IF noNext THEN 0 ELSE Max(0, segs[i + 1].start - s.end - MIN_GAP)
          sb == IF noPrev THEN 0 ELSE Max(0, s.start - segs[i - 1].end - MIN_GAP)
          after == IF noNext THEN T - d ELSE Min(T - d, sa)
      IN (d >= 0 /\ T > d) =>
           /\ Dur(segs'[i]) = (IF noNext \/ noPrev THEN T ELSE Min(T, d + sa + sb))
           /\ segs'[i].end = s.end + after
           /\ \A k \in 1..Len(segs) : k # i => segs'[k] = segs[k]
           /\ Len(segs') = Len(segs)
    ]_vars

\* C5 witness: a cue between two neighbours was stretched on both sides and
\* still fell short of its target (1.0 s with 0.5 s of slack gives 1.5 s).
C5_Witness ==
  /\ opt_run = 0
  /\ \E k \in 2..Len(segs) - 1 :
        /\ k < ext_i
        /\ Dur(seg_in[k]) = Tick
        /\ segs[k].end > seg_in[k].end
        /\ segs[k].start < seg_in[k].start
        /\ Dur(segs[k]) = Tick + Tick \div 2
        /\ Dur(segs[k]) < TargetDur(SegChars(seg_in[k]), Dur(seg_in[k]))

\* C6: optimize_cps applied to its own output returns as many cues, with the
\* same start and end times.
C6_OptimizeIdempotent ==
  (opt_pc = "done" /\ opt_run = 2) =>
    /\ Len(segs) = Len(opt_out1)
    /\ \A k \in 1..Len(segs) :
         segs[k].start = opt_out1[k].start /\ segs[k].end = opt_out1[k].end

NextExtend == (ExtendStep \/ ExtendReturn)

NextOpt == (Merge \/ Split \/ ExtendStep \/ Clean \/ Rerun)

SpecExtend == InitExtend /\ [][NextExtend]_vars

\* C30: when every cue given to _extend_display_times starts at 0 or later,
\* every cue it returns starts at 0 or later.
C30_StartsNonNegative ==
  (opt_pc = "done" /\ opt_run = 0 /\ \A k \in 1..Len(seg_in) : seg_in[k].start >= 0)
    => \A k \in 1..Len(segs) : segs[k].start >= 0

SpecOpt == InitOpt /\ [][NextOpt]_vars

-----------------------------------------------------------------------------
(* smart_subs.py                                                           *)
(*                                                                         *)
(* Time grid: one tick is half a millisecond, so that the shift            *)
(* (MIN_GAP - gap) / 2 of the gap adjustment is a whole number for cue     *)
(* times given in milliseconds (an SRT file has no finer times).  A text   *)
(* is a sequence of characters: "a" an ordinary character, "." a strong    *)
(* mark (。！？), "," a weak mark (、，), " " a blank, "n" a line break;     *)
(* "z" stands for the phrase ご視聴ありがとうございました, and "g", "k" for  *)
(* the two halves of 最後までご視聴いただき、本当にありがとうございました.    *)

Ms == 1 + 1

MIN_DUR == 1200 * Ms

SS_MIN_GAP == 120 * Ms

VALLEY_SNAP_MS == 150

\* the 0.4 s below which a snapped cue is put back (line 224)
SNAP_FLOOR == 400 * Ms

\* the 1.2 s a cue with end <= start is given in main (line 295)
FIX_DUR == 1200 * Ms

\* MAX_CPS_DEFAULT of srt_rules (17 characters per second)
MAX_CPS_DEFAULT == 17

ANCHOR_PATTERNS == {<<"g", ",", "k">>, <<"g", "k">>, <<"z">>}

Blank == {" ", "n"}

Abs(x) == IF x < 0 THEN -x ELSE x

\* needle occurs in hay as a contiguous run (Python's `needle in hay`)
Contains(hay, needle) ==
  \E o \in 0..(Len(hay) - Len(needle)) :
    \A q \in 1..Len(needle) : hay[o + q] = needle[q]

\* re.sub(r"\s+", "", txt)
RECURSIVE NoBlanks(_)
NoBlanks(t) ==
  IF t = <<>> THEN <<>>
  ELSE (IF Head(t) \in Blank THEN <<>> ELSE <<Head(t)>>) \o NoBlanks(Tail(t))

\* a text without its spaces and line breaks
Visible(t) == SelectSeq(t, LAMBDA ch : ch \notin Blank)

\* str.strip()
RECURSIVE LStrip(_)
LStrip(t) == IF t # <<>> /\ Head(t) \in Blank THEN LStrip(Tail(t)) ELSE t

RECURSIVE RStrip(_)
RStrip(t) ==
  IF t # <<>> /\ t[Len(t)] \in Blank THEN RStrip(SubSeq(t, 1, Len(t) - 1)) ELSE t

Strip(t) == RStrip(LStrip(t))

\* nearest_valley(valleys, t, radius_ms): the first valley at the least
\* distance, taken when that distance is within the radius
RECURSIVE NearestFrom(_, _, _, _, _)
NearestFrom(valleys, t, q, best, bd) ==
  IF q > Len(valleys) THEN <<best, bd>>
  ELSE LET d == Abs(valleys[q] - t)
       IN IF bd = Inf \/ d < bd
          THEN NearestFrom(valleys, t, q + 1, valleys[q], d)
          ELSE NearestFrom(valleys, t, q + 1, best, bd)

nearest_valley(valleys, t, radius_ms) ==
  LET radius == Max(0, radius_ms) * Ms
      r == NearestFrom(valleys, t, 1, t, Inf)
  IN IF valleys = <<>> THEN t
     ELSE IF r[2] <= radius THEN r[1] ELSE t

\* mutant of SnapCue: the snapped times are put back only when they would
\* invert the cue
SnapCue_InvertOnly(valleys, st, ed) ==
  LET st2 == IF valleys # <<>> THEN nearest_valley(valleys, st, VALLEY_SNAP_MS) ELSE st
      ed2 == IF valleys # <<>> THEN nearest_valley(valleys, ed, VALLEY_SNAP_MS) ELSE ed
  IN IF ed2 - st2 <= 0 THEN <<st, ed>> ELSE <<st2, ed2>>

\* lines 222-225: both boundaries snapped, both put back when too short
SnapCue(valleys, st, ed) ==
  LET st2 == IF valleys # <<>> THEN nearest_valley(valleys, st, VALLEY_SNAP_MS) ELSE st
      ed2 == IF valleys # <<>> THEN nearest_valley(valleys, ed, VALLEY_SNAP_MS) ELSE ed
  IN IF ed2 - st2 < SNAP_FLOOR THEN <<st, ed>> ELSE <<st2, ed2>>

\* m.end() of re.search(r"[X](?!.*[X])", chunk): the position just after the
\* last character of chunk that is in marks, 0 when there is none
LastMarkEnd(chunk, marks) ==
  LET hits == {q \in 1..Len(chunk) : chunk[q] \in marks}
  IN IF hits = {} THEN 0 ELSE CHOOSE q \in hits : \A r \in hits : r <= q

\* lines 197-220: the new tptr for a rough cue [st, ed]
NextCut(S, tptr, st, ed) ==
  LET N == Len(S)
      dur == Max(Ms, ed - st)
      quota == (dur * MAX_CPS_DEFAULT) \div (1000 * Ms)
      end_guess == Min(N, tptr + Max(1, quota))
      chunk == SubSeq(S, tptr + 1, end_guess)
      m == LastMarkEnd(chunk, {"."})
      m2 == LastMarkEnd(chunk, {","})
      cut == IF m > 0 THEN tptr + m
             ELSE tptr + (IF m2 > 0 THEN m2 ELSE Len(chunk))
  IN IF tptr >= N THEN tptr ELSE Min(Max(cut, tptr + 1), N)

\* lines 235-242: blank cues before the last one are folded into the
\* previous cue
RECURSIVE MergeEmptyFrom(_, _)
MergeEmptyFrom(out, i) ==
  IF i >= Len(out) THEN out
  ELSE IF Strip(out[i].text) = <<>>
       THEN LET o1 == IF i > 1 THEN [out EXCEPT ![i - 1].end = out[i].end] ELSE out
            IN MergeEmptyFrom(SubSeq(o1, 1, i - 1) \o SubSeq(o1, i + 1, Len(o1)), i)
       ELSE MergeEmptyFrom(out, i + 1)

\* lines 245-259 with the text of the folded cue left out (line 251 lost)
RECURSIVE ShortGapFrom_DropText(_, _)
ShortGapFrom_DropText(out, j) ==
  IF j > Len(out) THEN out
  ELSE LET cur == out[j]
           dur == cur.end - cur.start
       IN IF dur < MIN_DUR /\ j > 1
          THEN LET o1 == [out EXCEPT ![j - 1].end = cur.end]
               IN ShortGapFrom_DropText(SubSeq(o1, 1, j - 1) \o SubSeq(o1, j + 1, Len(o1)), j)
          ELSE IF j > 1 /\ cur.start - out[j - 1].end < SS_MIN_GAP
               THEN LET gap == cur.start - out[j - 1].end
                        shift == (SS_MIN_GAP - gap) \div 2
                    IN ShortGapFrom_DropText(
                         [out EXCEPT ![j - 1].end = out[j - 1].end - shift,
                                     ![j].start = cur.start + shift], j + 1)
               ELSE ShortGapFrom_DropText(out, j + 1)

\* lines 245-259: short cues are folded into the previous cue, and a gap
\* below MIN_GAP is opened by moving both sides by half of what is missing
RECURSIVE ShortGapFrom(_, _)
ShortGapFrom(out, j) ==
  IF j > Len(out) THEN out
  ELSE LET cur == out[j]
           dur == cur.end - cur.start
       IN IF dur < MIN_DUR /\ j > 1
          THEN LET o1 == [out EXCEPT ![j - 1].end = cur.end,
                                     ![j - 1].text = Strip(out[j - 1].text \o cur.text)]
               IN ShortGapFrom(SubSeq(o1, 1, j - 1) \o SubSeq(o1, j + 1, Len(o1)), j)
          ELSE IF j > 1 /\ cur.start - out[j - 1].end < SS_MIN_GAP
               THEN LET gap == cur.start - out[j - 1].end
                        shift == (SS_MIN_GAP - gap) \div 2
                    IN ShortGapFrom([out EXCEPT ![j - 1].end = out[j - 1].end - shift,
                                                ![j].start = cur.start + shift], j + 1)
               ELSE ShortGapFrom(out, j + 1)

\* enforce_layout of srt_rules followed by "\n".join(lines): a text that
\* fits one line (every text of this model does) comes back as that line
enforce_layout(text) == text

\* cut_tail_at_anchor of smart_subs.py
has_anchor(txt) ==
  LET T == NoBlanks(txt)
  IN \E pat \in ANCHOR_PATTERNS : Contains(T, pat)

\* mutant of cut_tail_at_anchor: the scan runs forwards and stops at the
\* first cue with the anchor
cut_tail_at_anchor_First(cues) ==
  LET hits == {i \in 1..Len(cues) : has_anchor(cues[i].text)}
  IN IF hits = {} THEN cues
     ELSE SubSeq(cues, 1, CHOOSE i \in hits : \A h \in hits : i <= h)

RECURSIVE CutScan(_, _)
CutScan(cues, i) ==
  IF i < 1 THEN cues
  ELSE IF has_anchor(cues[i].text) THEN SubSeq(cues, 1, i)
       ELSE CutScan(cues, i - 1)

cut_tail_at_anchor(cues) == CutScan(cues, Len(cues))

\* main of clean_tail.py, lines 43-56: anchor.rstrip("。")
RECURSIVE RStripMark(_)
RStripMark(a) ==
  IF a # <<>> /\ a[Len(a)] = "." THEN RStripMark(SubSeq(a, 1, Len(a) - 1)) ELSE a

\* anchor.replace("。", "")
RECURSIVE DropMarks(_)
DropMarks(a) ==
  IF a = <<>> THEN <<>>
  ELSE (IF Head(a) = "." THEN <<>> ELSE <<Head(a)>>) \o DropMarks(Tail(a))

\* lines 45 and 50: the text holds the anchor, the anchor without its
\* trailing full stops, or the anchor without any full stop
InAlts(t, anchor) ==
  \E a \in {anchor, RStripMark(anchor), DropMarks(anchor)} : Contains(t, a)

\* the loop of clean_tail.py keeps the last index whose text holds one of
\* the alternatives; 0 stands for None
RECURSIVE TrueLast(_, _, _, _)
TrueLast(cues, anchor, i, last) ==
  IF i > Len(cues) THEN last
  ELSE TrueLast(cues, anchor, i + 1,
                IF InAlts(cues[i].text, anchor) THEN i ELSE last)

clean_tail(cues, anchor) ==
  LET true_last == TrueLast(cues, anchor, 1, 0)
  IN IF true_last = 0 THEN cues ELSE SubSeq(cues, 1, true_last)

\* lines 293-296 of main: a cue with end <= start gets end = start + 1.2,
\* then the cues are sorted by start (sorted() is stable)
FixEnd(c) == IF c.end <= c.start THEN [c EXCEPT !.end = c.start + FIX_DUR] ELSE c

RECURSIVE InsertByStart(_, _)
InsertByStart(sorted, c) ==
  IF sorted = <<>> THEN <<c>>
  ELSE IF sorted[Len(sorted)].start <= c.start THEN Append(sorted, c)
       ELSE Append(InsertByStart(SubSeq(sorted, 1, Len(sorted) - 1), c),
                   sorted[Len(sorted)])

RECURSIVE SortByStart(_)
SortByStart(cues) ==
  IF cues = <<>> THEN <<>>
  ELSE InsertByStart(SortByStart(SubSeq(cues, 1, Len(cues) - 1)), cues[Len(cues)])

-----------------------------------------------------------------------------
(* Inputs of the smart_subs specifications                                 *)

MaxCues == 2

MaxScript == 3

\* rough cues [gap, dur]: touching or 0.2 s after the previous cue; 0.05 s,
\* 0.5 s or 1.5 s long
RoughShapes == [gap : {0, 400}, dur : {100, 1000, 3000}]

\* the first rough cue starts 0.5 s (plus its gap) into the audio
RoughStart == 500 * Ms

RECURSIVE RoughOf(_, _)
RoughOf(shapes, t) ==
  IF shapes = <<>> THEN <<>>
  ELSE LET h == Head(shapes)
       IN <<[start |-> t + h.gap, end |-> t + h.gap + h.dur, text |-> <<"a">>]>>
            \o RoughOf(Tail(shapes), t + h.gap + h.dur)

RoughInputs == {RoughOf(sh, RoughStart) : sh \in SeqsUpTo(RoughShapes, MaxCues)}

\* valleys at 0.6 s and 0.9 s, in either file order
ValleyLists == {<<>>, <<1200>>, <<1800>>, <<1200, 1800>>, <<1800, 1200>>}

\* scripts as line 191 leaves them: blanks collapsed and stripped
Scripts ==
  {t \in SeqsUpTo({"a", ".", ",", " ", "z"}, MaxScript) :
     /\ t # <<>> => (t[1] # " " /\ t[Len(t)] # " ")
     /\ \A q \in 1..Len(t) - 1 : ~(t[q] = " " /\ t[q + 1] = " ")}

-----------------------------------------------------------------------------
(* Actions of smart_subs.py                                                *)

InitSmart ==
  /\ ss_S \in Scripts
  /\ ss_capcut \in RoughInputs
  /\ ss_valleys \in ValleyLists
  /\ ss_out = <<>>
  /\ ss_tptr = 0
  /\ ss_k = 1
  /\ ss_pc = "distribute"
  /\ IdleSeg /\ IdleAnchor /\ IdleWx /\ IdleRest

\* lines 196-227: one rough cue gets its text and its snapped times
Distribute ==
  /\ ss_pc = "distribute"
  /\ ss_k <= Len(ss_capcut)
  /\ LET c == ss_capcut[ss_k]
         cut == NextCut(ss_S, ss_tptr, c.start, c.end)
         snapped == SnapCue(ss_valleys, c.start, c.end)
     IN /\ ss_out' = Append(ss_out, [start |-> snapped[1], end |-> snapped[2],
                                     text |-> SubSeq(ss_S, ss_tptr + 1, cut)])
        /\ ss_tptr' = cut
  /\ ss_k' = ss_k + 1
  /\ UNCHANGED <<ss_S, ss_capcut, ss_valleys, ss_pc, vars_seg, vars_anchor, vars_wx, vars_rest>>

\* lines 230-232: what is left of the script goes to the last cue
Leftover ==
  /\ ss_pc = "distribute"
  /\ ss_k > Len(ss_capcut)
  /\ IF ss_tptr < Len(ss_S) /\ ss_out # <<>>
     THEN /\ ss_out' = [ss_out EXCEPT ![Len(ss_out)].text =
                          Strip(@ \o SubSeq(ss_S, ss_tptr + 1, Len(ss_S)))]
          /\ ss_tptr' = Len(ss_S)
     ELSE UNCHANGED <<ss_out, ss_tptr>>
  /\ ss_pc' = "merge_empty"
  /\ UNCHANGED <<ss_S, ss_capcut, ss_valleys, ss_k, vars_seg, vars_anchor, vars_wx, vars_rest>>

MergeEmpty ==
  /\ ss_pc = "merge_empty"
  /\ ss_out' = MergeEmptyFrom(ss_out, 1)
  /\ ss_pc' = "short_gap"
  /\ UNCHANGED <<ss_S, ss_capcut, ss_valleys, ss_tptr, ss_k, vars_seg, vars_anchor, vars_wx, vars_rest>>

ShortGap ==
  /\ ss_pc = "short_gap"
  /\ ss_out' = ShortGapFrom(ss_out, 1)
  /\ ss_pc' = "layout"
  /\ UNCHANGED <<ss_S, ss_capcut, ss_valleys, ss_tptr, ss_k, vars_seg, vars_anchor, vars_wx, vars_rest>>

\* lines 262-270: the layout pass, and distribute_text_over_capcut returns
Layout ==
  /\ ss_pc = "layout"
  /\ ss_out' = [q \in 1..Len(ss_out) |->
                  [ss_out[q] EXCEPT !.text = enforce_layout(@)]]
  /\ ss_pc' = "returned"
  /\ UNCHANGED <<ss_S, ss_capcut, ss_valleys, ss_tptr, ss_k, vars_seg, vars_anchor, vars_wx, vars_rest>>

\* line 290 of main
CutTail ==
  /\ ss_pc = "returned"
  /\ ss_out' = cut_tail_at_anchor(ss_out)
  /\ ss_pc' = "fix"
  /\ UNCHANGED <<ss_S, ss_capcut, ss_valleys, ss_tptr, ss_k, vars_seg, vars_anchor, vars_wx, vars_rest>>

\* lines 293-300 of main: the end <= start correction, the sort, the write
FixSortWrite ==
  /\ ss_pc = "fix"
  /\ ss_out' = SortByStart([q \in 1..Len(ss_out) |-> FixEnd(ss_out[q])])
  /\ ss_pc' = "written"
  /\ UNCHANGED <<ss_S, ss_capcut, ss_valleys, ss_tptr, ss_k, vars_seg, vars_anchor, vars_wx, vars_rest>>

NextSmart ==
  (Distribute \/ Leftover \/ MergeEmpty \/ ShortGap \/ Layout \/ CutTail \/ FixSortWrite)

SpecSmart == InitSmart /\ [][NextSmart]_vars

-----------------------------------------------------------------------------
(* The anchor cut on its own: cut_tail_at_anchor of smart_subs.py and the  *)
(* cut of clean_tail.py, on arbitrary cue lists                            *)

MaxAnchorCues == 3

\* cue texts: with and without each anchor phrase, the phrase broken by a
\* line break or a blank, the phrase with a full stop
AnchorTexts ==
  {<<"a">>, <<"z">>, <<"a", "n", "z">>, <<"g", ",", "k">>, <<"g", "n", "k">>,
   <<"g", "a", "k">>, <<"z", ".">>, <<>>}

\* --final-anchor values of clean_tail.py
AnchorArgs == {<<"z">>, <<"z", ".">>, <<"g", "k">>}

AnchorInputs ==
  {[q \in 1..Len(ts) |-> [start |-> q, end |-> q, text |-> ts[q]]] :
     ts \in SeqsUpTo(AnchorTexts, MaxAnchorCues)}

InitAnchor ==
  /\ an_cues \in AnchorInputs
  /\ an_anchor \in AnchorArgs
  /\ an_out = <<>>
  /\ an_pc = "start"
  /\ IdleSeg /\ IdleSmart /\ IdleWx /\ IdleRest

\* smart_subs.py: cues = cut_tail_at_anchor(cues)
AnchorCut ==
  /\ an_pc = "start"
  /\ an_out' = cut_tail_at_anchor(an_cues)
  /\ an_pc' = "smart_subs"
  /\ UNCHANGED <<an_cues, an_anchor, vars_seg, vars_smart, vars_wx, vars_rest>>

\* clean_tail.py: trimmed = cues[:true_last+1]
CleanTail ==
  /\ an_pc = "start"
  /\ an_out' = clean_tail(an_cues, an_anchor)
  /\ an_pc' = "clean_tail"
  /\ UNCHANGED <<an_cues, an_anchor, vars_seg, vars_smart, vars_wx, vars_rest>>

NextAnchor == (AnchorCut \/ CleanTail)

SpecAnchor == InitAnchor /\ [][NextAnchor]_vars

-----------------------------------------------------------------------------
(* Claims about smart_subs.py and clean_tail.py                            *)

\* the valleys within the snapping tolerance of t
ValleysNear(t) ==
  {v \in Range(ss_valleys) : Abs(v - t) <= VALLEY_SNAP_MS * Ms}

\* what a boundary at t may be replaced by: a valley at the least distance
\* when one is within the tolerance, t itself otherwise
SnapTargets(t) ==
  IF ValleysNear(t) = {} THEN {t}
  ELSE {v \in ValleysNear(t) : \A w \in ValleysNear(t) : Abs(v - t) <= Abs(w - t)}

RoughWellFormed ==
  /\ OrderedCues(ss_capcut)
  /\ NonOverlapping(ss_capcut)
  /\ \A q \in 1..Len(ss_capcut) : ss_capcut[q].start < ss_capcut[q].end

\* C8: for well-formed rough cues, every cue of the list smart_subs writes
\* ends no later than the next one starts.
C8_WrittenCuesOrdered ==
  (ss_pc = "written" /\ RoughWellFormed) => NonOverlapping(ss_out)

\* C9: every cue distribute_text_over_capcut returns lasts at least MIN_DUR.
C9_ReturnedCuesMinDur ==
  ss_pc = "returned" => \A q \in 1..Len(ss_out) : Dur(ss_out[q]) >= MIN_DUR

\* does cue i of the list handed to the cut contain the closing anchor, as
\* the program that ran looks for it
AnchorAt(i) ==
  IF an_pc = "clean_tail" THEN InAlts(an_cues[i].text, an_anchor)
  ELSE has_anchor(an_cues[i].text)

\* C10: the anchor cut returns the cues up to and including the last cue
\* that contains the anchor, each as it was, and the whole list when no cue
\* contains it.
C10_CutAtLastAnchor ==
  an_pc \in {"smart_subs", "clean_tail"} =>
    /\ Len(an_out) <= Len(an_cues)
    /\ \A i \in 1..Len(an_out) : an_out[i] = an_cues[i]
    /\ \A i \in 1..Len(an_cues) : (i > Len(an_out) => ~AnchorAt(i))
    /\ (Len(an_out) < Len(an_cues) => AnchorAt(Len(an_out)))
    /\ ((\A i \in 1..Len(an_cues) : ~AnchorAt(i)) => an_out = an_cues)

\* C10 witness: two cues contain the anchor, a cue follows the later one,
\* and the cut kept the list up to the later one.
C10_Witness ==
  /\ an_pc \in {"smart_subs", "clean_tail"}
  /\ \E i, j \in 1..Len(an_cues) :
       /\ i < j /\ j < Len(an_cues)
       /\ AnchorAt(i) /\ AnchorAt(j)
       /\ Len(an_out) = j

\* ======================================================================
\* final_whisperx_integrator_v9_duration_fix.py
\*
\* Times are integers in units of 1/WxSec second (0.05 s), so that 5.15 s,
\* 5.15 - 0.1 s, the 0.2 s gap and its half are whole numbers.  The result
\* cues multiply by time_scale = total_wx / total_original and halve sums,
\* so their times are kept multiplied by WxDen = total_original * 2^WxH.
\* Characters are one-character strings of a small alphabet:
\*   "a" "b"     hiragana          "A"  the katakana of "a"
\*   "p"         punctuation       " "  white space
\*   "0" .. "9"  digits            "W"  a character whose NFKC form is "ab"
\*   "K0".."K9", "K10", "K100", "K1000"  the kanji numerals
\* ======================================================================
WxSec == 4 * 5

min_duration == 2 * WxSec

SEG2_START == (515 * WxSec) \div 100

SEG1_END_FLOOR == SEG2_START - (WxSec \div 10)

OVERLAP_GAP == WxSec \div 5

DEFAULT_TOTAL == 517 * WxSec

\* confidence_threshold 0.5 and min_ratio 0.4, in hundredths
CONFIDENCE_PCT == 50

MIN_RATIO_PCT == 40

\* None of an Optional[float]
WxNone == -1

Digits == <<"0", "1", "2", "3", "4", "5", "6", "7", "8", "9">>

KANJI_DIGITS == <<"K0", "K1", "K2", "K3", "K4", "K5", "K6", "K7", "K8", "K9">>

SMALL_UNITS == << <<1000, "K1000">>, <<100, "K100">>, <<10, "K10">> >>

IsDigit(c) == c \in Range(Digits)

DigitValue(c) == (CHOOSE k \in 1..Len(Digits) : Digits[k] = c) - 1

\* unicodedata.normalize("NFKC", ch) of one character
Nfkc(ch) == IF ch = "W" THEN <<"a", "b">> ELSE <<ch>>

RECURSIVE NfkcAll(_)
NfkcAll(s) == IF s = <<>> THEN <<>> ELSE Nfkc(Head(s)) \o NfkcAll(Tail(s))

RECURSIVE IntOf(_, _)
IntOf(ds, acc) ==
  IF ds = <<>> THEN acc ELSE IntOf(Tail(ds), acc * 10 + DigitValue(Head(ds)))

RECURSIVE four_digit_to_kanji(_, _)
four_digit_to_kanji(x, u) ==
  IF u > Len(SMALL_UNITS)
  THEN IF x > 0 THEN <<KANJI_DIGITS[x + 1]>> ELSE <<>>
  ELSE LET unit == SMALL_UNITS[u][1]
           sym == SMALL_UNITS[u][2]
           d == x \div unit
       IN IF d = 0 THEN four_digit_to_kanji(x, u + 1)
          ELSE (IF d = 1 THEN <<sym>> ELSE <<KANJI_DIGITS[d + 1], sym>>)
               \o four_digit_to_kanji(x % unit, u + 1)

\* int_to_kanji for n below 10^4 (the digit runs of the model have at most
\* four digits, so no BIG_UNITS group is ever produced)
int_to_kanji(n) ==
  IF n = 0 THEN <<KANJI_DIGITS[1]>> ELSE four_digit_to_kanji(n, 1)

is_ws_or_punct_or_symbol(ch) == ch \in {"p", " "}

kata_to_hira(ch) == IF ch = "A" THEN "a" ELSE ch

\* the length of the run of digits at the head of s
RECURSIVE DigitRun(_)
DigitRun(s) ==
  IF s = <<>> \/ ~IsDigit(Head(s)) THEN 0 ELSE 1 + DigitRun(Tail(s))

\* re.sub(r"\d+", repl, s)
RECURSIVE SubDigits(_)
SubDigits(s) ==
  IF s = <<>> THEN <<>>
  ELSE LET r == DigitRun(s)
       IN IF r = 0 THEN <<Head(s)>> \o SubDigits(Tail(s))
          ELSE int_to_kanji(IntOf(SubSeq(s, 1, r), 0))
               \o SubDigits(SubSeq(s, r + 1, Len(s)))

normalize_text_ja(s) ==
  LET s1 == NfkcAll(s)
      s2 == [k \in 1..Len(s1) |-> kata_to_hira(s1[k])]
      s3 == SubDigits(s2)
  IN SelectSeq(s3, LAMBDA ch : ~is_ws_or_punct_or_symbol(ch))

distribute_char_times(token, start, end) ==
  IF start = WxNone \/ end = WxNone \/ end <= start
  THEN [k \in 1..Len(token) |-> [ch |-> token[k], start |-> WxNone, end |-> WxNone]]
  ELSE LET dur == (end - start) \div Len(token)
       IN [k \in 1..Len(token) |->
             [ch |-> token[k], start |-> start + dur * (k - 1), end |-> start + dur * k]]

RECURSIVE load_whisperx_char_stream(_)
load_whisperx_char_stream(words) ==
  IF words = <<>> THEN <<>>
  ELSE distribute_char_times(Head(words).word, Head(words).start, Head(words).end)
       \o load_whisperx_char_stream(Tail(words))

\* is the NFKC form of wx character j non-empty and all digits
AllDigitsAt(chars, j) ==
  LET f == Nfkc(chars[j].ch) IN f # <<>> /\ \A k \in 1..Len(f) : IsDigit(f[k])

RECURSIVE DigitRunEnd(_, _)
DigitRunEnd(chars, j) ==
  IF j <= Len(chars) /\ AllDigitsAt(chars, j) THEN DigitRunEnd(chars, j + 1) ELSE j

\* BuildFrom with the entry of a digit run ending at the first digit
RECURSIVE BuildFrom_RunStart(_, _)
BuildFrom_RunStart(chars, i) ==
  IF i > Len(chars) THEN <<>>
  ELSE IF AllDigitsAt(chars, i)
  THEN LET j == DigitRunEnd(chars, i)
           buff == NfkcAll([k \in 1..(j - i) |-> chars[i + k - 1].ch])
           kan == int_to_kanji(IntOf(buff, 0))
       IN [k \in 1..Len(kan) |-> [c |-> kan[k], a |-> i, b |-> i]]
          \o BuildFrom_RunStart(chars, j)
  ELSE LET f == Nfkc(chars[i].ch)
           units == [k \in 1..Len(f) |-> kata_to_hira(f[k])]
           kept == SelectSeq(units, LAMBDA u : ~is_ws_or_punct_or_symbol(u))
       IN [k \in 1..Len(kept) |-> [c |-> kept[k], a |-> i, b |-> i]]
          \o BuildFrom_RunStart(chars, i + 1)

\* build_normalized_wx_stream: a sequence of [c, a, b], c a normalized
\* character and a..b the wx characters it came from (positions 1-based)
RECURSIVE BuildFrom(_, _)
BuildFrom(chars, i) ==
  IF i > Len(chars) THEN <<>>
  ELSE IF AllDigitsAt(chars, i)
  THEN LET j == DigitRunEnd(chars, i)
           buff == NfkcAll([k \in 1..(j - i) |-> chars[i + k - 1].ch])
           kan == int_to_kanji(IntOf(buff, 0))
       IN [k \in 1..Len(kan) |-> [c |-> kan[k], a |-> i, b |-> j - 1]]
          \o BuildFrom(chars, j)
  ELSE LET f == Nfkc(chars[i].ch)
           units == [k \in 1..Len(f) |-> kata_to_hira(f[k])]
           kept == SelectSeq(units, LAMBDA u : ~is_ws_or_punct_or_symbol(u))
       IN [k \in 1..Len(kept) |-> [c |-> kept[k], a |-> i, b |-> i]]
          \o BuildFrom(chars, i + 1)

build_normalized_wx_stream(chars) == BuildFrom(chars, 1)

NormText(stream) == [k \in 1..Len(stream) |-> stream[k].c]

\* find_exact_subsequence: the 0-based offset of the first occurrence of
\* needle in haystack at or after start_pos, -1 when there is none
find_exact_subsequence(haystack, needle, start_pos) ==
  IF needle = <<>> THEN -1
  ELSE LET offs == {o \in start_pos..(Len(haystack) - Len(needle)) :
                      SubSeq(haystack, o + 1, o + Len(needle)) = needle}
       IN IF offs = {} THEN -1 ELSE CHOOSE o \in offs : \A p \in offs : o <= p

\* the length of the common run of a from i and b from j (0-based, half
\* open limits ahi, bhi)
RECURSIVE MatchLen(_, _, _, _, _, _)
MatchLen(a, b, i, j, ahi, bhi) ==
  IF i < ahi /\ j < bhi /\ a[i + 1] = b[j + 1]
  THEN 1 + MatchLen(a, b, i + 1, j + 1, ahi, bhi) ELSE 0

\* SequenceMatcher.find_longest_match without junk: the longest block, of
\* those the one earliest in a, of those the one earliest in b
find_longest_match(a, b, alo, ahi, blo, bhi) ==
  LET cands == {<<i, j, MatchLen(a, b, i, j, ahi, bhi)>> :
                  i \in alo..(ahi - 1), j \in blo..(bhi - 1)}
      good == {m \in cands : m[3] > 0}
      Better(m, n) ==
        \/ m[3] > n[3]
        \/ m[3] = n[3] /\ m[1] < n[1]
        \/ m[3] = n[3] /\ m[1] = n[1] /\ m[2] <= n[2]
  IN IF good = {} THEN <<alo, blo, 0>>
     ELSE CHOOSE m \in good : \A n \in good : Better(m, n)

\* SequenceMatcher.get_matching_blocks, the blocks of positive size
RECURSIVE MatchingBlocks(_, _, _, _, _, _)
MatchingBlocks(a, b, alo, ahi, blo, bhi) ==
  LET m == find_longest_match(a, b, alo, ahi, blo, bhi)
      i == m[1]
      j == m[2]
      k == m[3]
  IN IF k = 0 THEN {}
     ELSE {m}
          \cup (IF alo < i /\ blo < j
                THEN MatchingBlocks(a, b, alo, i, blo, j) ELSE {})
          \cup (IF i + k < ahi /\ j + k < bhi
                THEN MatchingBlocks(a, b, i + k, ahi, j + k, bhi) ELSE {})

RECURSIVE SumSizes(_)
SumSizes(blocks) ==
  IF blocks = {} THEN 0
  ELSE LET m == CHOOSE x \in blocks : TRUE IN m[3] + SumSizes(blocks \ {m})

FUZZY_SCALES == <<4, 8, 16>>

FUZZY_MIN_WINDOW == 150

\* fuzzy_locate: [found, s, e, matched]; the ratio is matched / Len(needle)
RECURSIVE FuzzyFrom(_, _, _, _)
FuzzyFrom(needle, haystack, start_pos, sc) ==
  IF sc > Len(FUZZY_SCALES) THEN [found |-> FALSE, s |-> 0, e |-> 0, matched |-> 0]
  ELSE LET approx_len == Max(Len(needle) * FUZZY_SCALES[sc], FUZZY_MIN_WINDOW)
           win_end == Min(Len(haystack), start_pos + approx_len)
           window == SubSeq(haystack, start_pos + 1, win_end)
           blocks == MatchingBlocks(needle, window, 0, Len(needle), 0, Len(window))
           matched == SumSizes(blocks)
           j_start == CHOOSE x \in {m[2] : m \in blocks} :
                        \A y \in {m[2] : m \in blocks} : x <= y
           j_end == CHOOSE x \in {m[2] + m[3] : m \in blocks} :
                      \A y \in {m[2] + m[3] : m \in blocks} : x >= y
       IN IF window = <<>> THEN FuzzyFrom(needle, haystack, start_pos, sc + 1)
          ELSE IF matched * 100 >= MIN_RATIO_PCT * Len(needle) /\ blocks # {}
          THEN [found |-> TRUE, s |-> start_pos + j_start,
                e |-> start_pos + j_end - 1, matched |-> matched]
          ELSE FuzzyFrom(needle, haystack, start_pos, sc + 1)

fuzzy_locate(needle, haystack, start_pos) ==
  IF needle = <<>> THEN [found |-> FALSE, s |-> 0, e |-> 0, matched |-> 0]
  ELSE FuzzyFrom(needle, haystack, start_pos, 1)

\* safe_time_at: idx is a 1-based position, clamped into the list
RECURSIVE SafeFrom(_, _, _)
SafeFrom(chars, j, direction) ==
  IF j < 1 \/ j > Len(chars) THEN WxNone
  ELSE LET t == IF direction > 0 THEN chars[j].start ELSE chars[j].end
       IN IF t # WxNone THEN t ELSE SafeFrom(chars, j + direction, direction)

safe_time_at(chars, idx, direction) ==
  SafeFrom(chars, Max(1, Min(idx, Len(chars))), direction)

\* ---- apply_duration_aware_whisperx_timing ------------------------------
MaxWxSegs == 3

\* the overlap loop halves a sum once per pair, so 2^WxH keeps them exact
WxH == MaxWxSegs

RECURSIVE Pow2(_)
Pow2(n) == IF n = 0 THEN 1 ELSE 2 * Pow2(n - 1)

total_original_duration ==
  IF wx_segments # <<>> THEN wx_segments[Len(wx_segments)].end ELSE DEFAULT_TOTAL

\* the ends of the wx characters that have one
WxEnds(chars) ==
  {chars[k].end : k \in {q \in 1..Len(chars) : chars[q].end # WxNone}}

total_wx_duration(chars) ==
  IF chars # <<>> THEN CHOOSE x \in WxEnds(chars) : \A y \in WxEnds(chars) : x >= y
  ELSE DEFAULT_TOTAL

\* every time of a result cue is the real time multiplied by WxDen
WxDen == (IF total_original_duration > 0 THEN total_original_duration ELSE 1) * Pow2(WxH)

\* t * time_scale, multiplied by WxDen
Scaled(t) ==
  IF total_original_duration > 0 THEN t * wx_total * Pow2(WxH)
  ELSE t * WxDen

\* lines 303-330: where the text of a segment is found in the stream;
\* whisperx_start, whisperx_end, the scan pointer after the segment, and
\* the accepted match s_norm..e_norm (0-based positions of the stream)
Locate(seg_norm, pos_norm) ==
  LET norm_wx_text == NormText(wx_stream)
      found_norm == find_exact_subsequence(norm_wx_text, seg_norm, pos_norm)
      fuzz == fuzzy_locate(seg_norm, norm_wx_text, pos_norm)
      exact == [s |-> found_norm, e |-> found_norm + Len(seg_norm) - 1]
      none == [start |-> WxNone, end |-> WxNone, pos |-> pos_norm,
               matched |-> FALSE, s |-> 0, e |-> 0]
      At(span) ==
        [start |-> safe_time_at(wx_chars, wx_stream[span.s + 1].a, 1),
         end |-> safe_time_at(wx_chars, wx_stream[span.e + 1].b, -1),
         pos |-> Max(pos_norm, span.e + 1),
         matched |-> TRUE, s |-> span.s, e |-> span.e]
  IN IF seg_norm = <<>> THEN none
     ELSE IF found_norm >= 0 THEN At(exact)
     ELSE IF fuzz.found /\ fuzz.matched * 100 >= CONFIDENCE_PCT * Len(seg_norm)
     THEN At(fuzz)
     ELSE none

\* lines 337-343: is the WhisperX timing taken
UseWx(seg, whisperx_start, whisperx_end) ==
  LET original_duration == (seg.end - seg.start) * WxDen
      wx_duration == (whisperx_end - whisperx_start) * WxDen
  IN /\ whisperx_start # WxNone /\ whisperx_end # WxNone
     /\ original_duration <= 2 * wx_duration
     /\ wx_duration <= 2 * original_duration
     /\ wx_duration >= min_duration * WxDen

\* lines 332-363: the final timing of segment i (1-based)
FinalTiming(i, seg, whisperx_start, whisperx_end) ==
  LET md == min_duration * WxDen
      original_duration == (seg.end - seg.start) * WxDen
      use_wx == UseWx(seg, whisperx_start, whisperx_end)
      start0 == IF use_wx THEN whisperx_start * WxDen ELSE Scaled(seg.start)
      end0 == IF use_wx THEN whisperx_end * WxDen ELSE Scaled(seg.end)
      start1 == IF i = 2 THEN SEG2_START * WxDen ELSE start0
      end1 == IF i = 2 /\ end0 < start1 + md
              THEN start1 + Max(md, original_duration) ELSE end0
      end2 == IF end1 - start1 < md THEN start1 + md ELSE end1
  IN [index |-> seg.index, start |-> start1, end |-> end2, text |-> seg.text]

\* new_curr_end as the previous release (V8) computed it
new_curr_end_MidOnly(curr, mid) == mid - (OVERLAP_GAP * WxDen) \div 2

new_curr_end(curr, mid) ==
  Max(curr.start + min_duration * WxDen, mid - (OVERLAP_GAP * WxDen) \div 2)

\* the body of the overlap loop for the pair (i, i + 1), i 1-based
ResolveOverlap(res, i) ==
  LET curr == res[i]
      next_seg == res[i + 1]
      md == min_duration * WxDen
  IN IF ~(curr.end > next_seg.start) THEN res
     ELSE IF i = 1
     THEN [res EXCEPT ![1].end = Max(curr.start + md, SEG1_END_FLOOR * WxDen)]
     ELSE LET gap == OVERLAP_GAP * WxDen
              mid == (curr.end + next_seg.start) \div 2
              nce == new_curr_end(curr, mid)
              min_next_start == nce + gap
              max_next_start == next_seg.end - md
              new_next_start == Min(min_next_start, Max(next_seg.start, max_next_start))
          IN [res EXCEPT ![i].end = nce,
                         ![i + 1].start = new_next_start,
                         ![i + 1].end = IF new_next_start + md > next_seg.end
                                        THEN new_next_start + md ELSE next_seg.end]

\* ---- inputs -----------------------------------------------------------
\* a cue of the input SRT: the gap after the previous cue, its length (one
\* cue ends before it starts), its text ("Apb" normalizes to "ab", "1" to
\* the kanji numeral "K1")
WxSegShapes ==
  LET sh(g, d, t) == [gap |-> g, dur |-> d, text |-> t]
  IN { sh(0, 20, <<"a">>), sh(0, 50, <<"a">>), sh(80, 50, <<"a">>),
       sh(0, 50, <<"b">>), sh(80, 20, <<"b">>), sh(80, -20, <<"b">>),
       sh(0, 50, <<"A", "p", "b">>), sh(80, 20, <<"A", "p", "b">>),
       sh(0, 50, <<"1">>), sh(0, 50, <<"a", "b", "b", "b", "b">>) }

RECURSIVE WxSegsOf(_, _, _)
WxSegsOf(shapes, t0, n) ==
  IF shapes = <<>> THEN <<>>
  ELSE LET sh == Head(shapes)
           st == t0 + sh.gap
       IN <<[index |-> n, start |-> st, end |-> st + sh.dur, text |-> sh.text]>>
          \o WxSegsOf(Tail(shapes), st + sh.dur, n + 1)

WxSegInputs == {WxSegsOf(shs, 0, 1) : shs \in SeqsUpTo(WxSegShapes, MaxWxSegs)}

\* the words of the WhisperX JSON
WxWordLists ==
  LET w(t, s, e) == [word |-> t, start |-> s, end |-> e]
  IN { <<>>,
       <<w(<<"a">>, WxNone, WxNone)>>,
       <<w(<<"a">>, 20, 70)>>,
       <<w(<<"a">>, 20, 70), w(<<"b">>, 70, 130)>>,
       <<w(<<"b">>, 20, 70), w(<<"a">>, 100, 160)>>,
       <<w(<<"a">>, 100, 160), w(<<"a">>, 180, 230)>>,
       <<w(<<"a", "b">>, 20, 120)>>,
       <<w(<<"a">>, WxNone, WxNone), w(<<"b">>, 70, 130)>>,
       <<w(<<"b">>, 160, 220), w(<<"p">>, 220, 222), w(<<"a">>, 20, 70)>>,
       <<w(<<"W">>, 20, 70)>>,
       <<w(<<"1", "1">>, 20, 120), w(<<"a">>, 120, 170)>>,
       <<w(<<"1", "2">>, 20, 120), w(<<"p">>, 120, 122), w(<<"3">>, 122, 170)>> }

InitWx ==
  /\ wx_segments \in WxSegInputs
  /\ \E words \in WxWordLists : wx_chars = load_whisperx_char_stream(words)
  /\ wx_stream = <<>>
  /\ wx_total = 0
  /\ wx_res = <<>>
  /\ wx_pos = 0
  /\ wx_spans = <<>>
  /\ wx_i = 0
  /\ wx_pc = "start"
  /\ IdleSeg /\ IdleSmart /\ IdleAnchor /\ IdleRest

\* lines 287-295: the stream and the time scale are computed
WxPrepare ==
  /\ wx_pc = "start"
  /\ wx_chars = <<>> \/ WxEnds(wx_chars) # {}
  /\ wx_stream' = build_normalized_wx_stream(wx_chars)
  /\ wx_total' = total_wx_duration(wx_chars)
  /\ wx_pc' = IF wx_segments = <<>> THEN "returned" ELSE "align"
  /\ wx_i' = 1
  /\ UNCHANGED <<wx_segments, wx_chars, wx_res, wx_pos, wx_spans, vars_seg, vars_smart, vars_anchor, vars_rest>>

\* line 292: max() of an empty sequence raises ValueError
WxValueError ==
  /\ wx_pc = "start"
  /\ wx_chars # <<>> /\ WxEnds(wx_chars) = {}
  /\ wx_pc' = "error"
  /\ UNCHANGED <<wx_segments, wx_chars, wx_stream, wx_total, wx_res, wx_pos, wx_spans, wx_i,
                 vars_seg, vars_smart, vars_anchor, vars_rest>>

\* lines 297-370: one pass of the first loop
AlignSeg ==
  /\ wx_pc = "align"
  /\ \E loc \in {Locate(normalize_text_ja(wx_segments[wx_i].text), wx_pos)} :
       /\ wx_res' = Append(wx_res,
                           FinalTiming(wx_i, wx_segments[wx_i], loc.start, loc.end))
       /\ wx_pos' = loc.pos
       /\ wx_spans' = Append(wx_spans,
                             [pos |-> wx_pos, matched |-> loc.matched,
                              s |-> loc.s, e |-> loc.e,
                              used |-> UseWx(wx_segments[wx_i], loc.start, loc.end)])
  /\ IF wx_i < Len(wx_segments)
     THEN wx_i' = wx_i + 1 /\ wx_pc' = "align"
     ELSE wx_i' = 1 /\ wx_pc' = IF Len(wx_segments) > 1 THEN "overlap" ELSE "returned"
  /\ UNCHANGED <<wx_segments, wx_chars, wx_stream, wx_total, vars_seg, vars_smart, vars_anchor, vars_rest>>

\* lines 373-401: one pass of the overlap loop
Overlap ==
  /\ wx_pc = "overlap"
  /\ wx_res' = ResolveOverlap(wx_res, wx_i)
  /\ wx_i' = wx_i + 1
  /\ wx_pc' = IF wx_i + 1 < Len(wx_res) THEN "overlap" ELSE "returned"
  /\ UNCHANGED <<wx_segments, wx_chars, wx_stream, wx_total, wx_pos, wx_spans,
                 vars_seg, vars_smart, vars_anchor, vars_rest>>

NextWx == (WxPrepare \/ WxValueError \/ AlignSeg \/ Overlap)

SpecWx == InitWx /\ [][NextWx]_vars

\* ---- claims ------------------------------------------------------------
\* what the first loop alone produces for the segments from i on
RECURSIVE AlignedFrom(_, _)
AlignedFrom(i, pos) ==
  IF i > Len(wx_segments) THEN <<>>
  ELSE LET loc == Locate(normalize_text_ja(wx_segments[i].text), pos)
       IN <<FinalTiming(i, wx_segments[i], loc.start, loc.end)>>
          \o AlignedFrom(i + 1, loc.pos)

\* C2: for every input the cues apply_duration_aware_whisperx_timing returns
\* do not overlap: each ends no later than the next one starts.
C2_OutputNonOverlapping ==
  wx_pc = "returned" => NonOverlapping(wx_res)

\* C3: every cue apply_duration_aware_whisperx_timing returns lasts at least
\* min_duration.
C3_ReturnedMinDuration ==
  wx_pc = "returned" =>
    \A k \in 1..Len(wx_res) : Dur(wx_res[k]) >= min_duration * WxDen

\* C3 witness: the first loop stretched a cue to min_duration, and the
\* overlap loop moved the end of a cue after the first and the start of the
\* cue after it.
C3_Witness ==
  /\ wx_pc = "returned"
  /\ \E k \in 1..Len(wx_segments) :
       Dur(wx_segments[k]) * wx_total < min_duration * total_original_duration
  /\ \E k \in 2..(Len(wx_res) - 1) :
       LET al == AlignedFrom(1, 0)
       IN /\ wx_res[k].end # al[k].end
          /\ wx_res[k + 1].start # al[k + 1].start

\* ======================================================================
\* finalize_tail.py
\*
\* Times are integers in milliseconds.
\* ======================================================================
TARGET_OFFSET_MS == 20

FT_MIN_DUR == 1200

FT_MIN_GAP == 120

\* line 88: the first cue among those with the greatest end
LatestEnding(cues) ==
  CHOOSE i \in 1..Len(cues) :
    /\ \A j \in 1..Len(cues) : cues[j].end <= cues[i].end
    /\ \A j \in 1..(i - 1) : cues[j].end < cues[i].end

\* line 85
TailTarget(a, target_offset_ms) == Max(0, a - target_offset_ms)

\* lines 99-109: the gap to the previous cue is checked again
RecheckGap(cues, idx) ==
  IF idx > 1 /\ cues[idx].start - cues[idx - 1].end < FT_MIN_GAP
  THEN LET start == cues[idx - 1].end + FT_MIN_GAP
           actual_span == cues[idx].end - start
       IN [cues EXCEPT ![idx].start = start,
                       ![idx].end = IF actual_span < FT_MIN_DUR
                                    THEN start + FT_MIN_DUR ELSE cues[idx].end]
  ELSE cues

\* lines 83-109 of main
finalize_tail(cues, a, target_offset_ms) ==
  LET target == TailTarget(a, target_offset_ms)
      idx == LatestEnding(cues)
      span == Max(FT_MIN_DUR, cues[idx].end - cues[idx].start)
      clamped == [cues EXCEPT ![idx].end = target,
                              ![idx].start = Max(0, target - span)]
  IN RecheckGap(clamped, idx)

\* ---- inputs -----------------------------------------------------------
MaxTailCues == 3

\* a cue of the input SRT: its distance from the end of the cue before it
\* (a negative one puts it inside or before that cue) and its length
TailShapes == [gap : {0, 500, -1500}, dur : {500, 2000}]

RECURSIVE TailCuesOf(_, _)
TailCuesOf(shapes, t) ==
  IF shapes = <<>> THEN <<>>
  ELSE LET sh == Head(shapes)
           st == Max(0, t + sh.gap)
       IN <<[start |-> st, end |-> st + sh.dur, text |-> <<"a">>]>>
          \o TailCuesOf(Tail(shapes), st + sh.dur)

TailInputs(n) == {TailCuesOf(shs, 0) : shs \in SeqsUpTo(TailShapes, n)}

TailAudio == {0, 1000, 3000, 6000}

TailOffsets == {TARGET_OFFSET_MS, 0, 2000}

InitTail ==
  /\ ft_cues \in TailInputs(MaxTailCues)
  /\ ft_audio \in TailAudio
  /\ ft_offset \in TailOffsets
  /\ ft_idx = 0
  /\ ft_pc = "start"
  /\ IdleMain /\ IdleIo

\* lines 80-81: SystemExit when the SRT holds no cue
FtNoCues ==
  /\ ft_pc = "start"
  /\ ft_cues = <<>>
  /\ ft_pc' = "exit"
  /\ UNCHANGED <<ft_cues, ft_audio, ft_offset, ft_idx, vars_main, vars_io>>

\* lines 83-112: the latest-ending cue is adjusted and the files written
FtAdjust ==
  /\ ft_pc = "start"
  /\ ft_cues # <<>>
  /\ ft_idx' = LatestEnding(ft_cues)
  /\ ft_cues' = finalize_tail(ft_cues, ft_audio, ft_offset)
  /\ ft_pc' = "written"
  /\ UNCHANGED <<ft_audio, ft_offset, vars_main, vars_io>>

NextTail == (FtNoCues \/ FtAdjust)

SpecTail == InitTail /\ [][NextTail]_vars

\* ---- claims ------------------------------------------------------------
\* C11: after finalize_tail the end of the adjusted (latest-ending) cue is
\* max(0, audio length - target_offset_ms), whatever the cues and the audio
\* length.
C11_TailEndIsTarget ==
  ft_pc = "written" => ft_cues[ft_idx].end = Max(0, ft_audio - ft_offset)

\* C12: after finalize_tail the adjusted cue lasts at least MIN_DUR.
C12_TailCueMinDur ==
  ft_pc = "written" => Dur(ft_cues[ft_idx]) >= FT_MIN_DUR

\* C26: finalize_tail moves the start of the final cue only when needed:
\* when the clamped end minus the original start is at least MIN_DUR and the
\* original start is at least the minimum gap after the end of the cue
\* before it, the start stays as it was; no other cue is changed.
C26_TailStartKept ==
  [][(ft_pc = "start" /\ ft_pc' = "written") =>
       LET idx == ft_idx'
           target == TailTarget(ft_audio, ft_offset)
       IN /\ \A k \in 1..Len(ft_cues) : k # idx => ft_cues'[k] = ft_cues[k]
          /\ (/\ target - ft_cues[idx].start >= FT_MIN_DUR
              /\ idx > 1 => ft_cues[idx].start >= ft_cues[idx - 1].end + FT_MIN_GAP)
             => ft_cues'[idx].start = ft_cues[idx].start]_vars

\* ---- smart_subs.py: what becomes of the script text -------------------
\* the texts of the cues, one after the other
RECURSIVE ConcatTexts(_)
ConcatTexts(cs) ==
  IF cs = <<>> THEN <<>> ELSE Head(cs).text \o ConcatTexts(Tail(cs))

\* tptr after the distribution loop has served the rough cues from k on
RECURSIVE TptrAfter(_, _)
TptrAfter(k, tptr) ==
  IF k > Len(ss_capcut) THEN tptr
  ELSE TptrAfter(k + 1, NextCut(ss_S, tptr, ss_capcut[k].start, ss_capcut[k].end))

\* C13: for a non-empty rough cue list, the texts of the cues after the
\* distribution, the leftover absorption and the two merge passes, read in
\* order and without white space, are the whitespace-collapsed script: no
\* character is lost, doubled or moved.
C13_ScriptTextKept ==
  (ss_pc \in {"merge_empty", "short_gap", "layout"} /\ ss_capcut # <<>>) =>
    NoBlanks(ConcatTexts(ss_out)) = NoBlanks(ss_S)

\* C13 witness: the rough cues could not hold the whole script, so the last
\* cue absorbed the rest, and a short cue was folded into the one before it.
C13_Witness ==
  /\ ss_pc = "layout"
  /\ TptrAfter(1, 0) < Len(ss_S)
  /\ Len(ss_out) < Len(ss_capcut)
  /\ \E q \in 1..Len(ss_out) : Len(NoBlanks(ss_out[q].text)) >= 2

\* C14: every cue distribute_text_over_capcut returns holds at least one
\* visible character (checked for scripts that have a visible character).
C14_NoEmptyCue ==
  (ss_pc = "returned" /\ NoBlanks(ss_S) # <<>>) =>
    \A q \in 1..Len(ss_out) : NoBlanks(ss_out[q].text) # <<>>

\* ---- timestamps: fmt_time, format_seconds_to_srt --------------------------
\* A time is a whole number of thirds of a millisecond, so no time lies
\* exactly between two milliseconds and round() has one answer.
Sub == 1 + 2

SubSec == 1000 * Sub

\* int(round(x * 1000)) of a part of a second x
RoundMs(x) == (x + 1) \div Sub

RECURSIVE Decimal(_)
Decimal(n) ==
  IF n < 10 THEN <<Digits[n + 1]>>
  ELSE Append(Decimal(n \div 10), Digits[(n % 10) + 1])

RECURSIVE ZeroPad(_, _)
ZeroPad(ds, w) == IF Len(ds) >= w THEN ds ELSE ZeroPad(<<"0">> \o ds, w)

\* f"{h:02d}:{m:02d}:{s:02d},{ms:03d}": each field is padded to its width
\* and not cut when it is longer
Stamp(h, m, s, ms) ==
  ZeroPad(Decimal(h), 2) \o <<":">> \o ZeroPad(Decimal(m), 2) \o <<":">>
    \o ZeroPad(Decimal(s), 2) \o <<",">> \o ZeroPad(Decimal(ms), 3)

\* smart_subs.py fmt_time
fmt_time(sec0) ==
  LET sec == Max(0, sec0)
      h == sec \div (3600 * SubSec)
      m == (sec % (3600 * SubSec)) \div (60 * SubSec)
      s == (sec % (60 * SubSec)) \div SubSec
      ms == RoundMs(sec % SubSec)
  IN Stamp(h, m, s, ms)

\* finalize_tail.py fmt_time
ft_fmt_time(sec0) ==
  LET sec == Max(0, sec0)
      h == sec \div (3600 * SubSec)
      m == (sec % (3600 * SubSec)) \div (60 * SubSec)
      s == (sec % (60 * SubSec)) \div SubSec
      ms == RoundMs(sec % SubSec)
  IN Stamp(h, m, s, ms)

\* final_whisperx_integrator_v9_duration_fix.py format_seconds_to_srt
format_seconds_to_srt(ts0) ==
  LET ts == IF ts0 < 0 THEN 0 ELSE ts0
      h == ts \div (3600 * SubSec)
      m == (ts % (3600 * SubSec)) \div (60 * SubSec)
      s == (ts % (60 * SubSec)) \div SubSec
      ms == RoundMs(ts % SubSec)
  IN IF ms >= 1000 THEN Stamp(h, m, s + 1, ms - 1000) ELSE Stamp(h, m, s, ms)

\* the times rendered: FmtWin grid steps on both sides of a few instants
\* (in ms) where a field of the timestamp turns over
FmtWin == 3

FmtInstants == {0, 500, 1000, 59000, 60000, 3599000, 3600000, 3660000}

FmtTimes(w) == {b * Sub + d : b \in FmtInstants, d \in (0 - w)..w}

InitFmt ==
  /\ io_in \in FmtTimes(FmtWin)
  /\ io_out = <<>>
  /\ io_pc = "start"
  /\ IdleMain /\ IdleTail

FmtTime ==
  /\ io_pc = "start"
  /\ io_out' = fmt_time(io_in)
  /\ io_pc' = "fmt_time"
  /\ UNCHANGED <<io_in, vars_main, vars_tail>>

FtFmtTime ==
  /\ io_pc = "start"
  /\ io_out' = ft_fmt_time(io_in)
  /\ io_pc' = "ft_fmt_time"
  /\ UNCHANGED <<io_in, vars_main, vars_tail>>

FormatSecondsToSrt ==
  /\ io_pc = "start"
  /\ io_out' = format_seconds_to_srt(io_in)
  /\ io_pc' = "format_seconds_to_srt"
  /\ UNCHANGED <<io_in, vars_main, vars_tail>>

NextFmt == (FmtTime \/ FtFmtTime \/ FormatSecondsToSrt)

SpecFmt == InitFmt /\ [][NextFmt]_vars

\* the time, in ms, that a text of the form HH:MM:SS,mmm denotes
StampMs(t) ==
  ((IntOf(SubSeq(t, 1, 2), 0) * 60 + IntOf(SubSeq(t, 4, 5), 0)) * 60
     + IntOf(SubSeq(t, 7, 8), 0)) * 1000 + IntOf(SubSeq(t, 10, 12), 0)

\* C17: for every time t >= 0 the rendered timestamp has the form
\* HH:MM:SS,mmm with minutes and seconds in 00-59 and exactly three
\* millisecond digits, and denotes t rounded to the nearest millisecond.
C17_TimestampForm ==
  (io_pc \in {"fmt_time", "ft_fmt_time", "format_seconds_to_srt"} /\ io_in >= 0) =>
    /\ Len(io_out) = 12
    /\ io_out[3] = ":" /\ io_out[6] = ":" /\ io_out[9] = ","
    /\ \A k \in {1, 2, 4, 5, 7, 8, 10, 11, 12} : IsDigit(io_out[k])
    /\ IntOf(SubSeq(io_out, 4, 5), 0) <= 59
    /\ IntOf(SubSeq(io_out, 7, 8), 0) <= 59
    /\ StampMs(io_out) = RoundMs(io_in)

\* ---- SRT text: format_srt, parse_srt (smart_subs.py) ----------------------
\* A file is a sequence of characters; "n" is the newline.
Newline == "n"

\* sep.join(parts)
RECURSIVE Join(_, _)
Join(parts, sep) ==
  IF parts = <<>> THEN <<>>
  ELSE IF Len(parts) = 1 THEN parts[1]
  ELSE parts[1] \o sep \o Join(Tail(parts), sep)

\* str.splitlines()
RECURSIVE SplitLinesFrom(_, _)
SplitLinesFrom(t, cur) ==
  IF t = <<>> THEN (IF cur = <<>> THEN <<>> ELSE <<cur>>)
  ELSE IF Head(t) = Newline THEN <<cur>> \o SplitLinesFrom(Tail(t), <<>>)
  ELSE SplitLinesFrom(Tail(t), Append(cur, Head(t)))

SplitLines(t) == SplitLinesFrom(t, <<>>)

\* the last newline of the whitespace run t[q..], `last` when it has none:
\* where a match of \n\s*\n ends
RECURSIVE LastNewline(_, _, _)
LastNewline(t, q, last) ==
  IF q > Len(t) \/ t[q] \notin Blank THEN last
  ELSE LastNewline(t, q + 1, IF t[q] = Newline THEN q ELSE last)

\* re.split(r"\n\s*\n", t)
RECURSIVE SplitBlocksFrom(_, _, _)
SplitBlocksFrom(t, p, from) ==
  IF p > Len(t) THEN <<SubSeq(t, from, Len(t))>>
  ELSE IF t[p] = Newline /\ LastNewline(t, p + 1, 0) > 0
  THEN <<SubSeq(t, from, p - 1)>>
         \o SplitBlocksFrom(t, LastNewline(t, p + 1, 0) + 1, LastNewline(t, p + 1, 0) + 1)
  ELSE SplitBlocksFrom(t, p + 1, from)

SplitBlocks(t) == SplitBlocksFrom(t, 1, 1)

\* re.fullmatch(r"\d+", ln)
IsNumber(ln) == ln # <<>> /\ \A k \in 1..Len(ln) : IsDigit(ln[k])

\* \d{2}:\d{2}:\d{2},\d{3} at position k of ln
IsStampAt(ln, k) ==
  /\ k + 11 <= Len(ln)
  /\ \A q \in 0..11 :
       IF q \in {2, 5} THEN ln[k + q] = ":"
       ELSE IF q = 8 THEN ln[k + q] = ","
       ELSE IsDigit(ln[k + q])

\* \s* from position k: the first position that holds no whitespace
RECURSIVE SkipBlank(_, _)
SkipBlank(ln, k) ==
  IF k <= Len(ln) /\ ln[k] \in Blank THEN SkipBlank(ln, k + 1) ELSE k

\* re.match(r"(\d{2}:\d{2}:\d{2},\d{3})\s*-->\s*(\d{2}:\d{2}:\d{2},\d{3})", ln):
\* the two groups, <<>> when the beginning of the line does not match
MatchTimes(ln) ==
  IF /\ IsStampAt(ln, 1)
     /\ SkipBlank(ln, 13) + 2 <= Len(ln)
     /\ SubSeq(ln, SkipBlank(ln, 13), SkipBlank(ln, 13) + 2) = <<"-", "-", ">">>
     /\ IsStampAt(ln, SkipBlank(ln, SkipBlank(ln, 13) + 3))
  THEN <<SubSeq(ln, 1, 12),
         SubSeq(ln, SkipBlank(ln, SkipBlank(ln, 13) + 3),
                SkipBlank(ln, SkipBlank(ln, 13) + 3) + 11)>>
  ELSE <<>>

\* tosec of parse_srt, in ms
tosec(ts) ==
  IntOf(SubSeq(ts, 1, 2), 0) * 3600000 + IntOf(SubSeq(ts, 4, 5), 0) * 60000
    + IntOf(SubSeq(ts, 7, 8), 0) * 1000 + IntOf(SubSeq(ts, 10, 12), 0)

\* the lines of a block that are not blank, without a leading number line
CueLines(b) ==
  LET lines == SelectSeq(SplitLines(b), LAMBDA ln : Strip(ln) # <<>>)
  IN IF lines # <<>> /\ IsNumber(lines[1]) THEN Tail(lines) ELSE lines

\* the loop of parse_srt over the blocks
RECURSIVE ParseBlocks(_)
ParseBlocks(blocks) ==
  IF blocks = <<>> THEN <<>>
  ELSE LET lines == CueLines(Head(blocks))
           m == IF lines = <<>> THEN <<>> ELSE MatchTimes(lines[1])
       IN (IF m = <<>> THEN <<>>
           ELSE <<[start |-> tosec(m[1]), end |-> tosec(m[2]),
                   text |-> Join(Tail(lines), <<Newline>>)]>>)
            \o ParseBlocks(Tail(blocks))

\* parse_srt of the text of the file
parse_srt(text) == ParseBlocks(SplitBlocks(Strip(text)))

RECURSIVE FormatLines(_, _)
FormatLines(cues, i) ==
  IF i > Len(cues) THEN <<>>
  ELSE <<Decimal(i),
         fmt_time(cues[i].start) \o <<" ", "-", "-", ">", " ">> \o fmt_time(cues[i].end),
         RStrip(cues[i].text),
         <<>>>> \o FormatLines(cues, i + 1)

format_srt(cues) == Strip(Join(FormatLines(cues, 1), <<Newline>>)) \o <<Newline>>

\* cues to render (times on the grid of thirds of a ms, texts without
\* blank lines or outer whitespace): some times lie within half a ms below a
\* whole second
MaxRtCues == 2

RtShapes ==
  LET c(st, ed, txt) == [start |-> st, end |-> ed, text |-> txt]
  IN { c(0, 4500, <<"x">>), c(4500, 8999, <<"x", "n", "y">>),
       c(2999, 7500, <<"x">>), c(3000, 9000, <<"1">>),
       c(3001, 8998, <<"y">>), c(7500, 9000, <<"x", " ", "y", "n", "y">>),
       c(0, 10799999 * Sub, <<"y">>) }

RtInputs(n) == UNION {[1..k -> RtShapes] : k \in 0..n}

InitRound ==
  /\ io_in \in RtInputs(MaxRtCues)
  /\ io_out = <<>>
  /\ io_pc = "start"
  /\ IdleMain /\ IdleTail

\* smart_subs.py line 299: the cues are rendered
FormatSrt ==
  /\ io_pc = "start"
  /\ io_out' = format_srt(io_in)
  /\ io_pc' = "formatted"
  /\ UNCHANGED <<io_in, vars_main, vars_tail>>

\* parse_srt reads the rendered text back
ParseSrt ==
  /\ io_pc = "formatted"
  /\ io_out' = parse_srt(io_out)
  /\ io_pc' = "parsed"
  /\ UNCHANGED <<io_in, vars_main, vars_tail>>

NextRound == (FormatSrt \/ ParseSrt)

SpecRound == InitRound /\ [][NextRound]_vars

\* C18: parse_srt of the text format_srt renders returns as many cues, in
\* the same order, with the same text and each start and end equal to the
\* original rounded to the millisecond.
C18_RoundTrip ==
  io_pc = "parsed" =>
    /\ Len(io_out) = Len(io_in)
    /\ \A k \in 1..Len(io_in) :
         /\ io_out[k].text = io_in[k].text
         /\ io_out[k].start = RoundMs(io_in[k].start)
         /\ io_out[k].end = RoundMs(io_in[k].end)

\* ---- reading an SRT file: parse_srt, load_srt and the runs after them -----
\* str.split(sep)
RECURSIVE SplitOnFrom(_, _, _, _)
SplitOnFrom(t, sep, p, from) ==
  IF p + Len(sep) - 1 > Len(t) THEN <<SubSeq(t, from, Len(t))>>
  ELSE IF SubSeq(t, p, p + Len(sep) - 1) = sep
  THEN <<SubSeq(t, from, p - 1)>> \o SplitOnFrom(t, sep, p + Len(sep), p + Len(sep))
  ELSE SplitOnFrom(t, sep, p + 1, from)

SplitOn(t, sep) == SplitOnFrom(t, sep, 1, 1)

\* int(s) of unsigned decimal text: <<value>>, or <<>> for a ValueError
IntParse(s) == IF IsNumber(Strip(s)) THEN <<IntOf(Strip(s), 0)>> ELSE <<>>

\* parse_timestamp_to_seconds of the integrator, in ms: <<value>>, or <<>>
\* when the unpacking or an int() raises
parse_timestamp_to_seconds(ts) ==
  LET parts == SplitOn(ts, <<":">>)
      rest == IF Len(parts) = 3 THEN SplitOn(parts[3], <<",">>) ELSE <<>>
  IN IF Len(parts) # 3 \/ Len(rest) # 2 THEN <<>>
     ELSE IF \/ IntParse(parts[1]) = <<>> \/ IntParse(parts[2]) = <<>>
             \/ IntParse(rest[1]) = <<>> \/ IntParse(rest[2]) = <<>>
     THEN <<>>
     ELSE <<IntParse(parts[1])[1] * 3600000 + IntParse(parts[2])[1] * 60000
              + IntParse(rest[1])[1] * 1000 + IntParse(rest[2])[1]>>

\* the body of the loop of load_srt for one block: <<segment>>, or <<>> when
\* the block is passed over (fewer than 3 lines, or an exception)
LoadBlock(b) ==
  LET lines == SplitLines(Strip(b))
      ts == IF Len(lines) < 3 THEN <<>> ELSE SplitOn(Strip(lines[2]), <<"-", "-", ">">>)
  IN IF Len(lines) < 3 THEN <<>>
     ELSE IF IntParse(lines[1]) = <<>> \/ Len(ts) # 2 THEN <<>>
     ELSE IF \/ parse_timestamp_to_seconds(Strip(ts[1])) = <<>>
             \/ parse_timestamp_to_seconds(Strip(ts[2])) = <<>>
     THEN <<>>
     ELSE <<[index |-> IntParse(lines[1])[1],
             start |-> parse_timestamp_to_seconds(Strip(ts[1]))[1],
             end |-> parse_timestamp_to_seconds(Strip(ts[2]))[1],
             text |-> Join(SubSeq(lines, 3, Len(lines)), <<Newline>>)]>>

RECURSIVE LoadBlocks(_)
LoadBlocks(blocks) ==
  IF blocks = <<>> THEN <<>> ELSE LoadBlock(Head(blocks)) \o LoadBlocks(Tail(blocks))

\* load_srt of the text of the file
load_srt(raw) == LoadBlocks(SplitBlocks(Strip(raw)))

\* finalize_tail.py parse_srt (times in ms)
ft_parse_srt(text) == ParseBlocks(SplitBlocks(Strip(text)))

\* finalize_tail.py out_srt
RECURSIVE OutLines(_, _)
OutLines(cues, i) ==
  IF i > Len(cues) THEN <<>>
  ELSE <<Decimal(i),
         ft_fmt_time(cues[i].start * Sub) \o <<" ", "-", "-", ">", " ">>
           \o ft_fmt_time(cues[i].end * Sub),
         RStrip(cues[i].text),
         <<>>>> \o OutLines(cues, i + 1)

out_srt(cues) == Strip(Join(OutLines(cues, 1), <<Newline>>)) \o <<Newline>>

\* input files: blocks whose time line is well formed ("ok"), has a full
\* stop for the comma of the start time ("dot"), or "->" for the arrow
MaxBlocks == 2

BlockShapes ==
  LET b(kind, st, ed, txt) == [kind |-> kind, start |-> st, end |-> ed, text |-> txt]
  IN { b("ok", 0, 2000, <<"x">>), b("ok", 2000, 4500, <<"x", "n", "y">>),
       b("ok", 5000, 6000, <<"y">>), b("dot", 2000, 4000, <<"x">>),
       b("arrow", 2000, 4000, <<"y">>), b("dot", 0, 1000, <<"y">>) }

TimeLine(b) ==
  LET st == fmt_time(b.start * Sub)
      ed == fmt_time(b.end * Sub)
  IN IF b.kind = "ok" THEN st \o <<" ", "-", "-", ">", " ">> \o ed
     ELSE IF b.kind = "dot" THEN [st EXCEPT ![9] = "."] \o <<" ", "-", "-", ">", " ">> \o ed
     ELSE st \o <<" ", "-", ">", " ">> \o ed

RECURSIVE FileBlocks(_, _)
FileBlocks(blocks, i) ==
  IF i > Len(blocks) THEN <<>>
  ELSE <<Decimal(i) \o <<Newline>> \o TimeLine(blocks[i]) \o <<Newline>> \o blocks[i].text>>
         \o FileBlocks(blocks, i + 1)

SrtFile(blocks) == Join(FileBlocks(blocks, 1), <<Newline, Newline>>) \o <<Newline>>

FileInputs(n) == UNION {[1..k -> BlockShapes] : k \in 0..n}

FileAudio == {3000, 7000}

InitParse ==
  /\ \E blocks \in FileInputs(MaxBlocks), a \in FileAudio :
       io_in = [blocks |-> blocks, file |-> SrtFile(blocks), audio |-> a]
  /\ io_out = <<>>
  /\ io_pc = "start"
  /\ IdleMain /\ IdleTail

\* smart_subs.py main line 284: capcut = parse_srt(args.capcut_srt) returns
ParseCapcut ==
  /\ io_pc = "start"
  /\ io_out' = parse_srt(io_in.file)
  /\ io_pc' = "parsed"
  /\ UNCHANGED <<io_in, vars_main, vars_tail>>

\* integrator main lines 417-420: load_srt, sys.exit(1) when nothing loaded
LoadSrt ==
  /\ io_pc = "start"
  /\ io_out' = load_srt(io_in.file)
  /\ io_pc' = IF load_srt(io_in.file) = <<>> THEN "exit" ELSE "loaded"
  /\ UNCHANGED <<io_in, vars_main, vars_tail>>

\* finalize_tail.py main lines 79-112: parse, SystemExit when there is no
\* cue, adjust the last cue, write the SRT
FtMain ==
  /\ io_pc = "start"
  /\ \E cues \in {ft_parse_srt(io_in.file)} :
       IF cues = <<>>
       THEN io_out' = <<>> /\ io_pc' = "exit"
       ELSE /\ io_out' = out_srt(finalize_tail(cues, io_in.audio, TARGET_OFFSET_MS))
            /\ io_pc' = "written"
  /\ UNCHANGED <<io_in, vars_main, vars_tail>>

NextParse == (ParseCapcut \/ LoadSrt \/ FtMain)

SpecParse == InitParse /\ [][NextParse]_vars

\* C20: when a block of the input has a time line that cannot be parsed,
\* the run fails: the reader does not return cues and no output is written.
C20_BadTimeLineFails ==
  (\E k \in 1..Len(io_in.blocks) : io_in.blocks[k].kind # "ok") =>
    io_pc \in {"start", "exit"}

\* ---- line wrapping: split_lines, _ensure_linebreaks ------------------------
\* Characters: "x" a letter, "p" a mark of JA_END_PUNCT or JA_PAUSE_PUNCT,
\* " " a space, "n" the newline.
MAX_CHARS_PER_LINE == 13

CO_MAX_CHARS_PER_LINE == 15

max_line_len == 36

max_lines == 2

IsBreakMark(ch) == ch = "p"

\* _chars_len: len(_norm(s)), NFKC without spaces and newlines
chars_len(t) == Len(NoBlanks(NfkcAll(t)))

\* smart_segmentation.py _ensure_linebreaks, the inner while loop: how many
\* characters of cur make the next line
RECURSIVE SegScan(_, _, _, _, _)
SegScan(cur, pos, slice_chars, last_break, limit) ==
  IF pos < Len(cur) /\ slice_chars < limit
  THEN SegScan(cur, pos + 1,
               IF cur[pos + 1] # " " THEN slice_chars + 1 ELSE slice_chars,
               IF IsBreakMark(cur[pos + 1]) THEN pos + 1 ELSE last_break,
               limit)
  ELSE IF last_break <= 0 THEN pos ELSE last_break

\* the outer loop: the list res
RECURSIVE SegWrap(_, _)
SegWrap(cur, max_chars) ==
  IF chars_len(cur) > max_chars
  THEN <<Strip(SubSeq(cur, 1, SegScan(cur, 0, 0, -1, max_chars)))>>
         \o SegWrap(LStrip(SubSeq(cur, SegScan(cur, 0, 0, -1, max_chars) + 1, Len(cur))),
                    max_chars)
  ELSE IF cur # <<>> THEN <<cur>> ELSE <<>>

\* smart_segmentation.py _ensure_linebreaks
ensure_linebreaks(text, max_chars) == Join(SegWrap(Strip(text), max_chars), <<Newline>>)

\* conservative_optimizer.py _ensure_linebreaks, the loop over the marks
RECURSIVE CoMarkScan(_, _, _, _, _)
CoMarkScan(cur, i, char_count, best_break, max_chars) ==
  IF i >= Len(cur) THEN best_break
  ELSE LET cc == IF cur[i + 1] # " " THEN char_count + 1 ELSE char_count
       IN IF IsBreakMark(cur[i + 1]) /\ cc <= max_chars
          THEN CoMarkScan(cur, i + 1, cc, i + 1, max_chars)
          ELSE IF IsBreakMark(cur[i + 1]) /\ best_break = -1 THEN i + 1
          ELSE CoMarkScan(cur, i + 1, cc, best_break, max_chars)

\* the loop that breaks at the character limit
RECURSIVE CoCountScan(_, _, _, _)
CoCountScan(cur, i, char_count, max_chars) ==
  IF i >= Len(cur) THEN -1
  ELSE LET cc == IF cur[i + 1] # " " THEN char_count + 1 ELSE char_count
       IN IF cc >= max_chars THEN i + 1 ELSE CoCountScan(cur, i + 1, cc, max_chars)

CoBreak(cur, max_chars) ==
  LET marked == CoMarkScan(cur, 0, 0, -1, max_chars)
      best_break == IF marked = -1 THEN CoCountScan(cur, 0, 0, max_chars) ELSE marked
  IN IF best_break <= 0 THEN Len(cur) \div 2 ELSE best_break

RECURSIVE CoWrap(_, _)
CoWrap(current, max_chars) ==
  IF chars_len(current) > max_chars
  THEN <<Strip(SubSeq(current, 1, CoBreak(current, max_chars)))>>
         \o CoWrap(Strip(SubSeq(current, CoBreak(current, max_chars) + 1, Len(current))),
                   max_chars)
  ELSE IF current # <<>> THEN <<current>> ELSE <<>>

\* conservative_optimizer.py _ensure_linebreaks
co_ensure_linebreaks(text, max_chars) ==
  Join(CoWrap(Strip(text), max_chars), <<Newline>>)

\* str.split(): the runs of characters between whitespace
RECURSIVE WordsFrom(_, _)
WordsFrom(t, cur) ==
  IF t = <<>> THEN (IF cur = <<>> THEN <<>> ELSE <<cur>>)
  ELSE IF Head(t) \in Blank
  THEN (IF cur = <<>> THEN <<>> ELSE <<cur>>) \o WordsFrom(Tail(t), <<>>)
  ELSE WordsFrom(Tail(t), Append(cur, Head(t)))

\* the for loop of split_lines from word k on: lines and current_line at
\* its end or at the break
RECURSIVE SplitLoop(_, _, _, _)
SplitLoop(words, k, lines, current_line) ==
  IF k > Len(words) THEN [lines |-> lines, current_line |-> current_line]
  ELSE IF Len(Strip(current_line \o <<" ">> \o words[k])) <= max_line_len
  THEN SplitLoop(words, k + 1, lines, Strip(current_line \o <<" ">> \o words[k]))
  ELSE LET appended == IF current_line # <<>> THEN Append(lines, current_line) ELSE lines
       IN IF Len(appended) >= max_lines - 1
          THEN [lines |-> appended, current_line |-> words[k]]
          ELSE SplitLoop(words, k + 1, appended, words[k])

\* SRTFormatter.split_lines with the default max_line_len and max_lines
split_lines(text) ==
  IF Len(text) <= max_line_len THEN <<text>>
  ELSE LET r == SplitLoop(WordsFrom(text, <<>>), 1, <<>>, <<>>)
           lines == IF r.current_line # <<>> /\ Len(r.lines) < max_lines
                    THEN Append(r.lines, r.current_line) ELSE r.lines
       IN SubSeq(lines, 1, Min(Len(lines), max_lines))

\* precise_subtitle_generator.py: format_subtitle_lines
max_line_chars == 36

\* the characters a break is preferred at and that are removed from the
\* head of the second line
IsLinePunct(ch) == ch = "p"

\* ten times the score of breaking before the 0-based position pos
BreakScore(text, pos) ==
  LET line1_len == pos
      line2_len == Len(text) - pos
  IN (IF line1_len > max_line_chars THEN (line1_len - max_line_chars) * 100 ELSE 0)
     + (IF line2_len > max_line_chars THEN (line2_len - max_line_chars) * 100 ELSE 0)
     - (IF IsLinePunct(text[pos + 1]) THEN 50 ELSE 0)
     + Abs(line1_len - line2_len)

\* the first position of the search range with the lowest score
best_break(text) ==
  LET ideal_break == Len(text) \div 2
      search_range == Min(10, Len(text) \div 4)
      range == {pos \in Max(0, ideal_break - search_range)..
                        (Min(Len(text), ideal_break + search_range + 1) - 1) :
                  pos < Len(text)}
  IN IF range = {} THEN ideal_break
     ELSE CHOOSE pos \in range :
            \A q \in range :
              \/ BreakScore(text, pos) < BreakScore(text, q)
              \/ BreakScore(text, pos) = BreakScore(text, q) /\ pos <= q

\* re.sub(r'^[、。！？：；\s]+', '', line2)
RECURSIVE DropLeadingPunct(_)
DropLeadingPunct(t) ==
  IF t # <<>> /\ (IsLinePunct(Head(t)) \/ Head(t) \in Blank)
  THEN DropLeadingPunct(Tail(t)) ELSE t

\* the lines of the text format_subtitle_lines returns
format_subtitle_lines(text) ==
  IF Len(text) <= max_line_chars THEN <<text>>
  ELSE LET b == best_break(text)
           line1 == SubSeq(text, 1, Min(b, max_line_chars))
           rest == SubSeq(text, b + 1, Len(text))
           line2 == DropLeadingPunct(SubSeq(rest, 1, Min(Len(rest), max_line_chars)))
       IN IF line2 # <<>> THEN <<line1, line2>> ELSE <<line1>>

\* texts to wrap: up to MaxWrapLen letters, one of them replaced by a mark
\* and some by spaces at a few places
MaxWrapLen == 40

WrapMarkAt == {0, 8, 20}

WrapSpaceAt == {{}, {12}, {30}, {21, 39}}

WrapTexts(n) ==
  {[i \in 1..len |-> IF i = k THEN "p" ELSE IF i \in j THEN " " ELSE "x"] :
     len \in 0..n, k \in WrapMarkAt, j \in WrapSpaceAt}

InitWrap ==
  /\ io_in \in WrapTexts(MaxWrapLen)
  /\ io_out = <<>>
  /\ io_pc = "start"
  /\ IdleMain /\ IdleTail

\* force_align_whisper.py: SRTFormatter.split_lines(text)
FormatterSplitLines ==
  /\ io_pc = "start"
  /\ io_out' = split_lines(io_in)
  /\ io_pc' = "split_lines"
  /\ UNCHANGED <<io_in, vars_main, vars_tail>>

\* smart_segmentation.py: _ensure_linebreaks(text), its lines
EnsureLinebreaks ==
  /\ io_pc = "start"
  /\ io_out' = SplitOn(ensure_linebreaks(io_in, MAX_CHARS_PER_LINE), <<Newline>>)
  /\ io_pc' = "ensure_linebreaks"
  /\ UNCHANGED <<io_in, vars_main, vars_tail>>

\* conservative_optimizer.py: _ensure_linebreaks(text), its lines
CoEnsureLinebreaks ==
  /\ io_pc = "start"
  /\ io_out' = SplitOn(co_ensure_linebreaks(io_in, CO_MAX_CHARS_PER_LINE), <<Newline>>)
  /\ io_pc' = "co_ensure_linebreaks"
  /\ UNCHANGED <<io_in, vars_main, vars_tail>>

\* precise_subtitle_generator.py: format_subtitle_lines(text), its lines
FormatSubtitleLines ==
  /\ io_pc = "start"
  /\ io_out' = format_subtitle_lines(io_in)
  /\ io_pc' = "format_subtitle_lines"
  /\ UNCHANGED <<io_in, vars_main, vars_tail>>

NextWrap ==
  (FormatterSplitLines \/ EnsureLinebreaks \/ CoEnsureLinebreaks \/ FormatSubtitleLines)

SpecWrap == InitWrap /\ [][NextWrap]_vars

\* C28: splitting a text into display lines discards no character: the
\* lines split_lines and format_subtitle_lines return, one after the other
\* and without white space, are the text without white space.
C28_SplitKeepsCharacters ==
  io_pc \in {"split_lines", "format_subtitle_lines"} =>
    Visible(Join(io_out, <<>>)) = Visible(io_in)

\* the line limit of each wrapping step
WrapLimit ==
  IF io_pc = "split_lines" THEN max_line_len
  ELSE IF io_pc = "ensure_linebreaks" THEN MAX_CHARS_PER_LINE
  ELSE CO_MAX_CHARS_PER_LINE

\* C19: for every text the wrapping step gives at most 2 lines and every
\* line has at most the step's line limit of visible characters.
C19_WrapWithinLimits ==
  io_pc \in {"split_lines", "ensure_linebreaks", "co_ensure_linebreaks"} =>
    /\ Len(io_out) <= max_lines
    /\ \A k \in 1..Len(io_out) : chars_len(io_out[k]) <= WrapLimit

\* ---- conservative_optimizer.py: conservative_optimize ----------------------
\* Times are whole numbers of 1/520 s and the times of the input are even,
\* so chars / 6.5 s, 0.05 s and extension / 2 are whole numbers.
CoSec == 520

CO_MIN_GAP == 26

CO_MAX_DURATION == 8 * CoSec

CO_MERGE_BELOW == 416

\* chars / TARGET_CPS_MAX, TARGET_CPS_MAX = 6.5
CoIdeal(chars) == chars * 80

\* merged_chars / max(merged_duration, 0.001) <= TARGET_CPS_MAX + 1.0
CoMergedCpsOk(merged_chars, merged_duration) ==
  IF merged_duration <= 0 THEN merged_chars = 0
  ELSE 2 * merged_chars * CoSec <= 15 * merged_duration

\* _cps(seg) <= TARGET_CPS_MAX
CoCpsOk(seg) ==
  IF seg.end - seg.start <= 0 THEN chars_len(seg.text) = 0
  ELSE chars_len(seg.text) * CoSec * 2 <= 13 * (seg.end - seg.start)

\* SafeMergeFrom that gives a merged cue the text of its first cue only
RECURSIVE SafeMergeFrom_FirstText(_, _)
SafeMergeFrom_FirstText(segments, i) ==
  IF i > Len(segments) THEN <<>>
  ELSE LET current == segments[i]
           merged_text == current.text \o segments[i + 1].text
       IN IF /\ current.end - current.start < CO_MERGE_BELOW
             /\ i < Len(segments)
             /\ CoMergedCpsOk(chars_len(merged_text), segments[i + 1].end - current.start)
             /\ segments[i + 1].end - current.start <= CO_MAX_DURATION
          THEN <<[start |-> current.start, end |-> segments[i + 1].end,
                  text |-> co_ensure_linebreaks(current.text, CO_MAX_CHARS_PER_LINE)]>>
                 \o SafeMergeFrom_FirstText(segments, i + 2)
          ELSE <<[current EXCEPT
                    !.text = co_ensure_linebreaks(current.text, CO_MAX_CHARS_PER_LINE)]>>
                 \o SafeMergeFrom_FirstText(segments, i + 1)

\* _safe_merge_segments from segment i on (1-based)
RECURSIVE SafeMergeFrom(_, _)
SafeMergeFrom(segments, i) ==
  IF i > Len(segments) THEN <<>>
  ELSE LET current == segments[i]
           merged_text == current.text \o segments[i + 1].text
       IN IF /\ current.end - current.start < CO_MERGE_BELOW
             /\ i < Len(segments)
             /\ CoMergedCpsOk(chars_len(merged_text), segments[i + 1].end - current.start)
             /\ segments[i + 1].end - current.start <= CO_MAX_DURATION
          THEN <<[start |-> current.start, end |-> segments[i + 1].end,
                  text |-> co_ensure_linebreaks(merged_text, CO_MAX_CHARS_PER_LINE)]>>
                 \o SafeMergeFrom(segments, i + 2)
          ELSE <<[current EXCEPT
                    !.text = co_ensure_linebreaks(current.text, CO_MAX_CHARS_PER_LINE)]>>
                 \o SafeMergeFrom(segments, i + 1)

safe_merge_segments(segments) == SafeMergeFrom(segments, 1)

\* the body of the loop of _extend_display_time for segment i (1-based)
CoExtendOne(segments, i) ==
  LET seg == segments[i]
      n == Len(segments)
      chars == chars_len(seg.text)
      ideal_duration == CoIdeal(chars)
      current_duration == seg.end - seg.start
      max_start == IF i > 1 THEN segments[i - 1].end + CO_MIN_GAP ELSE seg.start
      max_end == IF i < n THEN segments[i + 1].start - CO_MIN_GAP
                 ELSE seg.start + ideal_duration
      new_duration == Min(Min(ideal_duration, max_end - max_start), CO_MAX_DURATION)
      extension == new_duration - current_duration
      extend_before == Min(extension \div 2, seg.start - max_start)
      extend_after == extension - extend_before
  IN IF chars = 0 \/ CoCpsOk(seg) \/ ideal_duration <= current_duration THEN seg
     ELSE IF new_duration > current_duration
     THEN [seg EXCEPT !.start = Max(max_start, seg.start - extend_before),
                      !.end = Min(max_end, seg.end + extend_after)]
     ELSE seg

\* _extend_display_time
extend_display_time(segments) == [i \in 1..Len(segments) |-> CoExtendOne(segments, i)]

\* input cues: the gap after the previous cue, the length, the text (n
\* letters, the third of them a space, the tenth a mark), all times even
MaxCoCues == 3

CoText(n) == [k \in 1..n |-> IF k = 3 THEN " " ELSE IF k = 10 THEN "p" ELSE "x"]

CoShapes ==
  LET sh(g, d, n) == [gap |-> g, dur |-> d, text |-> CoText(n)]
  IN { sh(0, 260, 2), sh(20, 260, 12), sh(26, 520, 20), sh(520, 1040, 20),
       sh(2080, 520, 40), sh(1040, 1040, 5), sh(520, 520, 54), sh(0, 2080, 0) }

RECURSIVE CoSegsOf(_, _)
CoSegsOf(shapes, t) ==
  IF shapes = <<>> THEN <<>>
  ELSE <<[start |-> t + Head(shapes).gap,
          end |-> t + Head(shapes).gap + Head(shapes).dur,
          text |-> Head(shapes).text]>>
       \o CoSegsOf(Tail(shapes), t + Head(shapes).gap + Head(shapes).dur)

CoInputs(n) == {CoSegsOf(shapes, 0) : shapes \in UNION {[1..k -> CoShapes] : k \in 0..n}}

CoNone == [merged |-> <<>>, extended |-> <<>>, formatted |-> <<>>]

InitCo ==
  /\ io_in \in CoInputs(MaxCoCues)
  /\ io_out = CoNone
  /\ io_pc = "start"
  /\ IdleMain /\ IdleTail

\* conservative_optimize of no segments returns []
CoEmpty ==
  /\ io_pc = "start"
  /\ io_in = <<>>
  /\ io_pc' = "returned"
  /\ UNCHANGED <<io_in, io_out, vars_main, vars_tail>>

\* step 1: _safe_merge_segments
CoMerge ==
  /\ io_pc = "start"
  /\ io_in # <<>>
  /\ io_out' = [io_out EXCEPT !.merged = safe_merge_segments(io_in)]
  /\ io_pc' = "merged"
  /\ UNCHANGED <<io_in, vars_main, vars_tail>>

\* step 2: _extend_display_time
CoExtend ==
  /\ io_pc = "merged"
  /\ io_out' = [io_out EXCEPT !.extended = extend_display_time(io_out.merged)]
  /\ io_pc' = "extended"
  /\ UNCHANGED <<io_in, vars_main, vars_tail>>

\* step 3: the formatting pass, and the return
CoFormat ==
  /\ io_pc = "extended"
  /\ io_out' = [io_out EXCEPT !.formatted =
                  [k \in 1..Len(io_out.extended) |->
                     [io_out.extended[k] EXCEPT
                        !.text = co_ensure_linebreaks(io_out.extended[k].text,
                                                      CO_MAX_CHARS_PER_LINE)]]]
  /\ io_pc' = "returned"
  /\ UNCHANGED <<io_in, vars_main, vars_tail>>

NextCo == (CoEmpty \/ CoMerge \/ CoExtend \/ CoFormat)

SpecCo == InitCo /\ [][NextCo]_vars

CoOrdered(cs) ==
  /\ \A k \in 1..Len(cs) : cs[k].start <= cs[k].end
  /\ \A k \in 1..(Len(cs) - 1) : cs[k].end <= cs[k + 1].start

\* C23: on an ordered list without overlaps, every adjacent pair of the
\* list _extend_display_time returns satisfies cue[i].end <= cue[i+1].start.
C23_ExtendKeepsOrder ==
  (io_pc \in {"extended", "returned"} /\ io_in # <<>> /\ CoOrdered(io_out.merged)) =>
    \A k \in 1..(Len(io_out.extended) - 1) :
      io_out.extended[k].end <= io_out.extended[k + 1].start

\* C24: a cue between two neighbours whose CPS exceeds TARGET_CPS_MAX leaves
\* _extend_display_time with the duration
\* min(chars / TARGET_CPS_MAX, MAX_DURATION, max_end - max_start),
\* max_start = previous end + MIN_GAP, max_end = next start - MIN_GAP.
C24_ExtendedDuration ==
  (io_pc \in {"extended", "returned"} /\ io_in # <<>>) =>
    \A k \in 2..(Len(io_out.merged) - 1) :
      (chars_len(io_out.merged[k].text) > 0 /\ ~CoCpsOk(io_out.merged[k])) =>
        Dur(io_out.extended[k]) =
          Min(Min(CoIdeal(chars_len(io_out.merged[k].text)), CO_MAX_DURATION),
              (io_out.merged[k + 1].start - CO_MIN_GAP)
                - (io_out.merged[k - 1].end + CO_MIN_GAP))

\* ======================================================================
\* force_align_whisper.py: align_to_script and generate_srt
\*
\* Times are integers in units of 1/425 s, so that char_count / max_cps
\* (17 characters a second) and min_gap_ms (80 ms) are exact. "q" is a
\* sentence end, "p" a comma, "L" a capital letter.
\* ======================================================================
FaSec == 17 * 25

\* SRTFormatter: min_gap_ms / 1000.0
FA_MIN_GAP == 34

\* 1 / max_cps: the time one character needs
FA_CHAR_TIME == 25

FA_LONG_SENTENCE == 40

FaSentenceEnd == {"q", Newline}

FaComma == {"p"}

\* the characters TextNormalizer.normalize removes
FaRemoved == {"p", "q"} \cup Blank

FaLower(ch) == IF ch = "L" THEN "l" ELSE ch

\* TextNormalizer.normalize
fa_normalize(text) ==
  LET s1 == NfkcAll(text)
      s2 == SelectSeq(s1, LAMBDA ch : ch \notin FaRemoved)
  IN [k \in 1..Len(s2) |-> FaLower(s2[k])]

\* re.split on runs of separators: the maximal runs of other characters
\* from position i on
RECURSIVE FaRuns(_, _, _)
FaRuns(t, seps, i) ==
  LET starts == {k \in i..Len(t) : t[k] \notin seps}
  IN IF starts = {} THEN <<>>
     ELSE LET st == CHOOSE k \in starts : \A q \in starts : k <= q
              stops == {k \in st..Len(t) : k = Len(t) \/ t[k + 1] \in seps}
              en == CHOOSE k \in stops : \A q \in stops : k <= q
          IN <<SubSeq(t, st, en)>> \o FaRuns(t, seps, en + 1)

\* the stripped parts that are not blank
RECURSIVE FaStripped(_)
FaStripped(parts) ==
  IF parts = <<>> THEN <<>>
  ELSE (IF Strip(Head(parts)) = <<>> THEN <<>> ELSE <<Strip(Head(parts))>>)
       \o FaStripped(Tail(parts))

RECURSIVE FaChunksOf(_)
FaChunksOf(sentences) ==
  IF sentences = <<>> THEN <<>>
  ELSE LET sentence == Head(sentences)
       IN (IF Strip(sentence) = <<>> THEN <<>>
           ELSE IF Len(sentence) > FA_LONG_SENTENCE
           THEN FaStripped(FaRuns(sentence, FaComma, 1))
           ELSE <<Strip(sentence)>>)
          \o FaChunksOf(Tail(sentences))

\* TextNormalizer.split_chunks
split_chunks(text) == FaChunksOf(FaRuns(text, FaSentenceEnd, 1))

\* the while loop of align_to_script: word_idx (0-based) when it ends
RECURSIVE TakeWords(_, _, _, _)
TakeWords(whisper_words, word_idx, need, accumulated) ==
  IF word_idx < Len(whisper_words) /\ accumulated < need
  THEN LET acc == accumulated + Len(fa_normalize(whisper_words[word_idx + 1].word))
       IN IF 10 * acc >= 8 * need THEN word_idx + 1
          ELSE TakeWords(whisper_words, word_idx + 1, need, acc)
  ELSE word_idx

\* the chunk loop of align_to_script from chunk k on
RECURSIVE AlignFrom(_, _, _, _)
AlignFrom(chunks, whisper_words, k, word_idx) ==
  IF k > Len(chunks) THEN <<>>
  ELSE IF Strip(chunks[k]) = <<>> THEN AlignFrom(chunks, whisper_words, k + 1, word_idx)
  ELSE LET next_idx == TakeWords(whisper_words, word_idx,
                                 Len(fa_normalize(chunks[k])), 0)
       IN (IF next_idx > word_idx
           THEN <<[text |-> chunks[k],
                   start |-> whisper_words[word_idx + 1].start,
                   end |-> whisper_words[next_idx].end]>>
           ELSE <<>>)
          \o AlignFrom(chunks, whisper_words, k + 1, next_idx)

align_to_script(chunks, whisper_words) == AlignFrom(chunks, whisper_words, 1, 0)

\* SRTFormatter.adjust_timing: the end after the CPS limit
adjust_timing(start, end, text) ==
  LET char_count == Len(SelectSeq(text, LAMBDA ch : ch # " "))
      min_duration_cps == char_count * FA_CHAR_TIME
  IN IF end - start < min_duration_cps THEN start + min_duration_cps ELSE end

\* SRTFormatter.format_time: hours, minutes and the seconds rounded to
\* milliseconds, as printed
format_time(seconds) ==
  LET secs == seconds % (60 * FaSec)
  IN [h |-> seconds \div (3600 * FaSec),
      m |-> (seconds % (3600 * FaSec)) \div (60 * FaSec),
      ms |-> (2 * 1000 * secs + FaSec) \div (2 * FaSec)]

\* SRTFormatter.create_subtitle
create_subtitle(index, text, start, end) ==
  [index |-> index,
   start |-> format_time(start),
   end |-> format_time(adjust_timing(start, end, text)),
   lines |-> split_lines(text)]

\* the loop of generate_srt from chunk i on
RECURSIVE GenerateFrom(_, _, _)
GenerateFrom(aligned_chunks, i, prev_end) ==
  IF i > Len(aligned_chunks) THEN <<>>
  ELSE LET chunk == aligned_chunks[i]
           start == IF chunk.start < prev_end + FA_MIN_GAP
                    THEN prev_end + FA_MIN_GAP ELSE chunk.start
           end == IF chunk.end <= start THEN start + FaSec ELSE chunk.end
       IN <<create_subtitle(i, chunk.text, start, end)>>
          \o GenerateFrom(aligned_chunks, i + 1, end)

generate_srt(aligned_chunks) == GenerateFrom(aligned_chunks, 1, 0)

\* ---- inputs -----------------------------------------------------------
MaxFaSentences == 3

MaxFaWords == 3

\* the sentences of a script: short ones, one of a comma only, a blank
\* one, and one of 41 characters with a comma in the middle
FaSentences ==
  { <<"x", "x">>, <<"x", "x", "x", "x", "x">>, <<"p">>, <<" ">>,
    [k \in 1..41 |-> IF k = 21 THEN "p" ELSE "x"] }

RECURSIVE FaScriptOf(_)
FaScriptOf(sentences) ==
  IF sentences = <<>> THEN <<>>
  ELSE Head(sentences) \o <<"q">> \o FaScriptOf(Tail(sentences))

\* a recognized word: its text and how long it lasts
FaWordShapes ==
  LET sh(t, d) == [word |-> t, dur |-> d]
  IN { sh(<<"x">>, 20), sh(<<"x", "x">>, 60), sh(<<"p">>, 10), sh(<<"W", "L">>, 500),
       sh([k \in 1..16 |-> "x"], 400) }

RECURSIVE FaWordsOf(_, _)
FaWordsOf(shapes, t) ==
  IF shapes = <<>> THEN <<>>
  ELSE <<[word |-> Head(shapes).word, start |-> t, end |-> t + Head(shapes).dur]>>
       \o FaWordsOf(Tail(shapes), t + Head(shapes).dur)

FaInputs(n, w) ==
  {[script |-> FaScriptOf(ss), words |-> FaWordsOf(ws, 0)] :
     ss \in UNION {[1..k -> FaSentences] : k \in 0..n},
     ws \in UNION {[1..k -> FaWordShapes] : k \in 0..w}}

FaNone == [chunks |-> <<>>, aligned |-> <<>>, srt |-> <<>>]

InitForce ==
  /\ io_in \in FaInputs(MaxFaSentences, MaxFaWords)
  /\ io_out = FaNone
  /\ io_pc = "start"
  /\ IdleMain /\ IdleTail

\* align_to_script: the script is split into chunks
FaSplitChunks ==
  /\ io_pc = "start"
  /\ io_out' = [io_out EXCEPT !.chunks = split_chunks(io_in.script)]
  /\ io_pc' = "chunks"
  /\ UNCHANGED <<io_in, vars_main, vars_tail>>

\* align_to_script: the chunk loop and the return
FaAlignToScript ==
  /\ io_pc = "chunks"
  /\ io_out' = [io_out EXCEPT !.aligned = align_to_script(io_out.chunks, io_in.words)]
  /\ io_pc' = "aligned"
  /\ UNCHANGED <<io_in, vars_main, vars_tail>>

\* process: generate_srt on the aligned chunks
FaGenerateSrt ==
  /\ io_pc = "aligned"
  /\ io_out' = [io_out EXCEPT !.srt = generate_srt(io_out.aligned)]
  /\ io_pc' = "srt"
  /\ UNCHANGED <<io_in, vars_main, vars_tail>>

NextForce == (FaSplitChunks \/ FaAlignToScript \/ FaGenerateSrt)

SpecForce == InitForce /\ [][NextForce]_vars

\* ---- claims on force_align_whisper.py ------------------------------------
\* C27: align_to_script returns one aligned entry for every non-blank
\* chunk of the script, in script order, also when the recognized words
\* run out before the last chunk.
C27_EntryPerChunk ==
  io_pc \in {"aligned", "srt"} =>
    /\ Len(io_out.aligned) = Len(io_out.chunks)
    /\ \A k \in 1..Len(io_out.aligned) : io_out.aligned[k].text = io_out.chunks[k]

\* the time a printed stamp denotes, in milliseconds
StampValue(st) == st.h * 3600000 + st.m * 60000 + st.ms

\* C29: in the SRT text generate_srt produces, each cue starts at least
\* min_gap_ms after the printed end of the cue before it, the end
\* create_subtitle prints after the CPS extension.
C29_RenderedGap ==
  io_pc = "srt" =>
    \A k \in 1..(Len(io_out.srt) - 1) :
      StampValue(io_out.srt[k + 1].start) >= StampValue(io_out.srt[k].end) + 80

\* ---- claims on the alignment loop -----------------------------------------
\* wx character i is dropped: every unit of its NFKC form is whitespace,
\* punctuation or a symbol
DroppedChar(i) ==
  /\ ~AllDigitsAt(wx_chars, i)
  /\ \A u \in Range(Nfkc(wx_chars[i].ch)) : is_ws_or_punct_or_symbol(kata_to_hira(u))

\* C21: after build_normalized_wx_stream the normalized string and the
\* index map have the same length; every entry (a, b) lies within the source
\* characters with a <= b; entries are non-decreasing along the stream; the
\* characters made from a digit run all carry the entry of the whole run;
\* a dropped character is covered by no entry and a kept one by some entry.
C21_IndexMapWellFormed ==
  wx_pc \in {"align", "overlap", "returned"} =>
    /\ Len(NormText(wx_stream)) = Len(wx_stream)
    /\ \A k \in 1..Len(wx_stream) :
         /\ 1 <= wx_stream[k].a /\ wx_stream[k].a <= wx_stream[k].b
         /\ wx_stream[k].b <= Len(wx_chars)
         /\ k < Len(wx_stream) =>
              /\ wx_stream[k].a <= wx_stream[k + 1].a
              /\ wx_stream[k].b <= wx_stream[k + 1].b
         /\ IF AllDigitsAt(wx_chars, wx_stream[k].a)
            THEN /\ \A q \in wx_stream[k].a..wx_stream[k].b : AllDigitsAt(wx_chars, q)
                 /\ wx_stream[k].a = 1 \/ ~AllDigitsAt(wx_chars, wx_stream[k].a - 1)
                 /\ wx_stream[k].b = Len(wx_chars)
                      \/ ~AllDigitsAt(wx_chars, wx_stream[k].b + 1)
            ELSE wx_stream[k].a = wx_stream[k].b
    /\ \A i \in 1..Len(wx_chars) :
         DroppedChar(i) <=>
           ~\E k \in 1..Len(wx_stream) : wx_stream[k].a <= i /\ i <= wx_stream[k].b

\* C21 witness: a stream with two characters made from one run of two
\* digits, a dropped character, and a later digit run of its own
C21_Witness ==
  /\ wx_pc \in {"align", "overlap", "returned"}
  /\ \E k \in 1..(Len(wx_stream) - 1) :
       /\ wx_stream[k].a < wx_stream[k].b
       /\ wx_stream[k + 1].a = wx_stream[k].a /\ wx_stream[k + 1].b = wx_stream[k].b
  /\ \E i \in 1..Len(wx_chars) : DroppedChar(i)
  /\ \E k \in 1..Len(wx_stream) :
       AllDigitsAt(wx_chars, wx_stream[k].a) /\ wx_stream[k].a > 1

C25_FuzzyAccepted ==
  \A k \in 1..Len(wx_spans) :
    LET seg_norm == normalize_text_ja(wx_segments[k].text)
        norm_wx_text == NormText(wx_stream)
        pos_norm == wx_spans[k].pos
        fuzz == fuzzy_locate(seg_norm, norm_wx_text, pos_norm)
        pos_after == IF k < Len(wx_spans) THEN wx_spans[k + 1].pos ELSE wx_pos
    IN (/\ seg_norm # <<>>
        /\ find_exact_subsequence(norm_wx_text, seg_norm, pos_norm) < 0
        /\ fuzz.found) =>
         /\ wx_spans[k].matched
         /\ wx_spans[k].s = fuzz.s /\ wx_spans[k].e = fuzz.e
         /\ pos_after = Max(pos_norm, fuzz.e + 1)

\* C16: before the overlap pass, every cue that did not take the WhisperX
\* timing has start = original start * time_scale and
\* end = max(original end * time_scale, start + min_duration).
C16_FallbackTiming ==
  (wx_pc = "align" \/ (wx_pc = "overlap" /\ wx_i = 1)
     \/ (wx_pc = "returned" /\ Len(wx_res) <= 1)) =>
    \A k \in 1..Len(wx_res) :
      ~wx_spans[k].used =>
        /\ wx_res[k].start = Scaled(wx_segments[k].start)
        /\ wx_res[k].end = Max(Scaled(wx_segments[k].end),
                                wx_res[k].start + min_duration * WxDen)

====
